---- MODULE Spec2Model ----
(***************************************************************************)
(* Model of convert_conversations.js: the batch converter main(), the      *)
(* schema drift tracker, the conversation renderer's filename policy and   *)
(* the attachment materializer.                                            *)
(*                                                                         *)
(* JavaScript values are tagged records [t, v].  A JavaScript string is a  *)
(* sequence of tokens; a token is one character, except for literals that  *)
(* no operation of the program looks inside (a timestamp, a short date).   *)
(* Flat gives the string a token sequence denotes, so file names and key   *)
(* paths are compared as the strings the program builds.                   *)
(***************************************************************************)
EXTENDS Integers, Sequences, FiniteSets, TLC

\* ------------------------------------------------------------------------
\* JavaScript values
\* ------------------------------------------------------------------------
Undef == [t |-> "undefined", v |-> 0]
Null == [t |-> "null", v |-> 0]
Num(n) == [t |-> "num", v |-> n]
Bool(b) == [t |-> "bool", v |-> b]
Str(s) == [t |-> "str", v |-> s]
Arr(a) == [t |-> "arr", v |-> a]
Obj(o) == [t |-> "obj", v |-> o]

\* !!x
Truthy(x) ==
    CASE x.t = "undefined" -> FALSE
      [] x.t = "null" -> FALSE
      [] x.t = "bool" -> x.v
      [] x.t = "num" -> x.v # 0
      [] x.t = "str" -> x.v # <<>>
      [] OTHER -> TRUE

\* x.k throws a TypeError exactly when x is null or undefined
PropThrows(x) == x.t \in {"null", "undefined"}

\* property names
kLength == <<"l","e","n","g","t","h">>
kKeys == <<"k","e","y","s">>
kName == <<"n","a","m","e">>
kUuid == <<"u","u","i","d">>
kCreatedAt == <<"c","r","e","a","t","e","d","_","a","t">>
kUpdatedAt == <<"u","p","d","a","t","e","d","_","a","t">>
kChatMessages == <<"c","h","a","t","_","m","e","s","s","a","g","e","s">>
kSender == <<"s","e","n","d","e","r">>
kText == <<"t","e","x","t">>
kContent == <<"c","o","n","t","e","n","t">>
kType == <<"t","y","p","e">>
kAttachments == <<"a","t","t","a","c","h","m","e","n","t","s">>
kFileName == <<"f","i","l","e","_","n","a","m","e">>
kFileType == <<"f","i","l","e","_","t","y","p","e">>
kFileSize == <<"f","i","l","e","_","s","i","z","e">>
kExtractedContent == <<"e","x","t","r","a","c","t","e","d","_","c","o","n","t","e","n","t">>

\* a built-in method, as the value of a property read
Func == [t |-> "function", v |-> 0]

\* x.k for an x that is neither null nor undefined; an array inherits keys()
Prop(x, k) ==
    IF x.t = "obj" THEN (IF k \in DOMAIN x.v THEN x.v[k] ELSE Undef)
    ELSE IF x.t = "arr" /\ k = kKeys THEN Func
    ELSE Undef

\* x.length
LengthOf(x) ==
    IF x.t \in {"str", "arr"} THEN Num(Len(x.v)) ELSE Prop(x, kLength)

\* a || b
OrElse(a, b) == IF Truthy(a) THEN a ELSE b

\* the string a token sequence denotes
RECURSIVE Flat(_)
Flat(s) == IF s = <<>> THEN "" ELSE Head(s) \o Flat(Tail(s))

\* ------------------------------------------------------------------------
\* Characters
\* ------------------------------------------------------------------------
LowerSeq == <<"a","b","c","d","e","f","g","h","i","j","k","l","m",
              "n","o","p","q","r","s","t","u","v","w","x","y","z">>
UpperSeq == <<"A","B","C","D","E","F","G","H","I","J","K","L","M",
              "N","O","P","Q","R","S","T","U","V","W","X","Y","Z">>
DigitSeq == <<"0","1","2","3","4","5","6","7","8","9">>
HexSeq == <<"0","1","2","3","4","5","6","7","8","9","a","b","c","d","e","f">>
SpaceChars == {" ", "\t", "\n"}

Range(s) == {s[i] : i \in DOMAIN s}
IndexIn(s, c) == CHOOSE i \in DOMAIN s : s[i] = c
LowerSet == Range(LowerSeq)
UpperSet == Range(UpperSeq)
DigitSet == Range(DigitSeq)
AlnumSet == LowerSet \cup UpperSet \cup DigitSet
IsAlnum(c) == c \in AlnumSet
UpperOf == [c \in LowerSet |-> UpperSeq[IndexIn(LowerSeq, c)]]
LowerOf == [c \in UpperSet |-> LowerSeq[IndexIn(UpperSeq, c)]]
ToUpper(c) == IF c \in LowerSet THEN UpperOf[c] ELSE c
ToLower(c) == IF c \in UpperSet THEN LowerOf[c] ELSE c

\* the printable ASCII characters, code 32 first (the backtick, code 96, cannot be
\* written in a string here and no input uses it)
Ascii == <<" ","!","\"","#","$","%","&","'","(",")","*","+",",","-",".","/",
          "0","1","2","3","4","5","6","7","8","9",":",";","<","=",">","?",
          "@","A","B","C","D","E","F","G","H","I","J","K","L","M","N","O",
          "P","Q","R","S","T","U","V","W","X","Y","Z","[","\\","]","^","_",
          "<backtick>","a","b","c","d","e","f","g","h","i","j","k","l","m","n","o",
          "p","q","r","s","t","u","v","w","x","y","z","{","|","}","~">>

\* charCodeAt
CodeOf ==
    [c \in Range(Ascii) \cup {"\t", "\n"} |->
        CASE c = "\t" -> 9
          [] c = "\n" -> 10
          [] OTHER -> 31 + IndexIn(Ascii, c)]
CharCode(c) == CodeOf[c]

\* ------------------------------------------------------------------------
\* sanitizeTitle
\* ------------------------------------------------------------------------
\* .replace(/[^a-zA-Z0-9\s]/g, '')
RemoveSpecial(s) == SelectSeq(s, LAMBDA c : IsAlnum(c) \/ c \in SpaceChars)

\* .trim()
RECURSIVE TrimLeft(_)
TrimLeft(s) ==
    IF s # <<>> /\ Head(s) \in SpaceChars THEN TrimLeft(Tail(s)) ELSE s
RECURSIVE TrimRight(_)
TrimRight(s) ==
    IF s # <<>> /\ s[Len(s)] \in SpaceChars
    THEN TrimRight(SubSeq(s, 1, Len(s) - 1)) ELSE s
Trim(s) == TrimRight(TrimLeft(s))

\* .replace(/\s+/g, ' ')
RECURSIVE CollapseSpaces(_)
CollapseSpaces(s) ==
    IF s = <<>> THEN <<>>
    ELSE IF Head(s) \in SpaceChars
         THEN <<" ">> \o CollapseSpaces(TrimLeft(s))
         ELSE <<Head(s)>> \o CollapseSpaces(Tail(s))

\* .split(sep): the pieces between the occurrences of sep
Split(s, sep) ==
    LET at == {i \in DOMAIN s : s[i] = sep}
        \* the k-th occurrence, 0 and Len(s) + 1 standing for the two ends
        cut(k) == IF k = 0 THEN 0
                  ELSE IF k > Cardinality(at) THEN Len(s) + 1
                  ELSE CHOOSE i \in at : Cardinality({j \in at : j < i}) = k - 1
    IN [k \in 1..(Cardinality(at) + 1) |-> SubSeq(s, cut(k - 1) + 1, cut(k) - 1)]

\* word.charAt(0).toUpperCase() + word.slice(1).toLowerCase()
Capitalize(word) ==
    IF word = <<>> THEN <<>>
    ELSE <<ToUpper(Head(word))>> \o [i \in 1..(Len(word) - 1) |-> ToLower(word[i + 1])]

RECURSIVE JoinWords(_)
JoinWords(ws) == IF ws = <<>> THEN <<>> ELSE Capitalize(Head(ws)) \o JoinWords(Tail(ws))

Untitled == <<"U","n","t","i","t","l","e","d","C","o","n","v","e","r","s","a","t","i","o","n">>

\* sanitizeTitle without the removal of special characters
sanitizeTitleKeepsSpecial(title) ==
    IF ~Truthy(title) \/ title.t # "str" THEN Untitled
    ELSE LET cleaned == CollapseSpaces(Trim(title.v))
         IN IF cleaned = <<>> THEN Untitled
            ELSE JoinWords(Split(cleaned, " "))

sanitizeTitle(title) ==
    IF ~Truthy(title) \/ title.t # "str" THEN Untitled
    ELSE LET cleaned == CollapseSpaces(Trim(RemoveSpecial(title.v)))
         IN IF cleaned = <<>> THEN Untitled
            ELSE JoinWords(Split(cleaned, " "))

\* ------------------------------------------------------------------------
\* generateContentHash: 32-bit arithmetic on two 16-bit halves
\* ------------------------------------------------------------------------
Half == 65536

\* hash = ((hash << 5) - hash) + char; hash = hash & hash
HashStep(h, c) ==
    LET low == h.lo * 31 + c
    IN [hi |-> (h.hi * 31 + (low \div Half)) % Half, lo |-> low % Half]

RECURSIVE HashLoop(_, _)
HashLoop(h, codes) ==
    IF codes = <<>> THEN h ELSE HashLoop(HashStep(h, Head(codes)), Tail(codes))

\* Math.abs of the signed 32-bit value
AbsInt32(h) ==
    IF h.hi < Half \div 2 THEN h
    ELSE [hi |-> Half - h.hi - (IF h.lo = 0 THEN 0 ELSE 1), lo |-> (Half - h.lo) % Half]

Hex4(n) == << HexSeq[(n \div 4096) + 1], HexSeq[((n \div 256) % 16) + 1],
              HexSeq[((n \div 16) % 16) + 1], HexSeq[(n % 16) + 1] >>

RECURSIVE StripZeros(_)
StripZeros(s) ==
    IF Len(s) > 1 /\ Head(s) = "0" THEN StripZeros(Tail(s)) ELSE s

\* .toString(16)
ToHex(h) == StripZeros(Hex4(h.hi) \o Hex4(h.lo))

Prefix(s, n) == SubSeq(s, 1, IF Len(s) < n THEN Len(s) ELSE n)

\* content is a JavaScript value; a string is hashed over its characters,
\* a value without a numeric length runs no iteration
generateContentHash(content) ==
    IF LengthOf(content) = Num(0) THEN <<"e","m","p","t","y">>
    ELSE LET codes == IF content.t = "str"
                      THEN [i \in 1..Len(content.v) |-> CharCode(content.v[i])]
                      ELSE <<>>
         IN Prefix(ToHex(AbsInt32(HashLoop([hi |-> 0, lo |-> 0], codes))), 6)

\* ------------------------------------------------------------------------
\* path.extname, path.parse (POSIX), on character sequences
\* ------------------------------------------------------------------------
RECURSIVE StripSlashes(_)
StripSlashes(p) ==
    IF p # <<>> /\ p[Len(p)] = "/" THEN StripSlashes(SubSeq(p, 1, Len(p) - 1)) ELSE p

\* the index of the last ch in s, 0 when there is none
LastIndexOf(s, ch) ==
    IF \A i \in DOMAIN s : s[i] # ch THEN 0
    ELSE CHOOSE i \in DOMAIN s : s[i] = ch /\ \A j \in (i + 1)..Len(s) : s[j] # ch

\* what follows the last separator of q
LastSegment(q) == SubSeq(q, LastIndexOf(q, "/") + 1, Len(q))

\* the last path segment, trailing separators ignored
PathBase(p) == LastSegment(StripSlashes(p))

\* from the last dot of the segment b on; nothing when the dot leads b
ExtOfBase(b, last) ==
    IF last <= 1 \/ b = <<".", ".">> THEN <<>> ELSE SubSeq(b, last, Len(b))

PathExt(p) == ExtOfBase(PathBase(p), LastIndexOf(PathBase(p), "."))

PathName(p) == SubSeq(PathBase(p), 1, Len(PathBase(p)) - Len(PathExt(p)))

\* path.join(a, b): concatenate, then normalize "." and ".." segments
RECURSIVE NormSegs(_, _)
NormSegs(segs, stack) ==
    IF segs = <<>> THEN stack
    ELSE LET h == Head(segs)
         IN IF h = <<>> \/ h = <<".">> THEN NormSegs(Tail(segs), stack)
            ELSE IF h = <<".", ".">> /\ stack # <<>> /\ stack[Len(stack)] # <<".", ".">>
                 THEN NormSegs(Tail(segs), SubSeq(stack, 1, Len(stack) - 1))
                 ELSE NormSegs(Tail(segs), Append(stack, h))

RECURSIVE JoinSegs(_)
JoinSegs(segs) ==
    IF segs = <<>> THEN <<>>
    ELSE IF Len(segs) = 1 THEN Head(segs)
    ELSE Head(segs) \o <<"/">> \o JoinSegs(Tail(segs))

PathJoin(a, b) ==
    LET raw == a \o <<"/">> \o b
        body == JoinSegs(NormSegs(Split(raw, "/"), <<>>))
    IN IF body = <<>> THEN <<".">>
       ELSE IF raw[Len(raw)] = "/" THEN body \o <<"/">> ELSE body

\* path.dirname of a normalized relative path
PathDir(p) ==
    LET segs == Split(StripSlashes(p), "/")
    IN IF Len(segs) <= 1 THEN <<".">> ELSE JoinSegs(SubSeq(segs, 1, Len(segs) - 1))

\* ------------------------------------------------------------------------
\* Sorting strings by UTF-16 code units (Array.prototype.sort default)
\* ------------------------------------------------------------------------
\* a < b: a is a proper prefix of b, or smaller at the first difference
StrLess(a, b) ==
    LET common == IF Len(a) < Len(b) THEN Len(a) ELSE Len(b)
        diff == {i \in 1..common : a[i] # b[i]}
        first == CHOOSE i \in diff : \A j \in diff : i <= j
    IN IF diff = {} THEN Len(a) < Len(b)
       ELSE CharCode(a[first]) < CharCode(b[first])

\* the sorted sequence with x put in its place
RECURSIVE Insert(_, _)
Insert(sorted, x) ==
    IF sorted = <<>> THEN <<x>>
    ELSE IF StrLess(x, Head(sorted)) THEN <<x>> \o sorted
    ELSE <<Head(sorted)>> \o Insert(Tail(sorted), x)

RECURSIVE SortStrings(_)
SortStrings(S) ==
    IF S = {} THEN <<>>
    ELSE LET x == CHOOSE a \in S : TRUE
         IN Insert(SortStrings(S \ {x}), x)

\* ------------------------------------------------------------------------
\* collectKeys
\* ------------------------------------------------------------------------
\* collectKeys with the prefix dropped below the first level
RECURSIVE collectKeysFlat(_, _)
collectKeysFlat(obj, prefix) ==
    IF obj.t = "arr"
    THEN IF Len(obj.v) > 0 THEN collectKeysFlat(obj.v[1], prefix) ELSE {}
    ELSE IF obj.t # "obj" THEN {}
    ELSE UNION { LET fullKey == IF prefix # <<>> THEN prefix \o <<".">> \o key ELSE key
                 IN {fullKey} \cup collectKeysFlat(obj.v[key], key)
                 : key \in DOMAIN obj.v }

RECURSIVE collectKeys(_, _)
collectKeys(obj, prefix) ==
    IF obj.t = "arr"
    THEN IF Len(obj.v) > 0 THEN collectKeys(obj.v[1], prefix) ELSE {}
    ELSE IF obj.t # "obj" THEN {}
    ELSE UNION { LET fullKey == IF prefix # <<>> THEN prefix \o <<".">> \o key ELSE key
                 IN {fullKey} \cup collectKeys(obj.v[key], fullKey)
                 : key \in DOMAIN obj.v }

\* ------------------------------------------------------------------------
\* Configuration
\* ------------------------------------------------------------------------
INPUT_FILE == <<"c","o","n","v","e","r","s","a","t","i","o","n","s",".","j","s","o","n">>
OUTPUT_DIR == <<"c","l","a","u","d","e","_","c","o","n","v","e","r","s","a","t","i","o","n","s","_","m","a","r","k","d","o","w","n">>
SCHEMA_FILE == <<"c","l","a","u","d","e","_","s","c","h","e","m","a",".","j","s","o","n">>

\* ------------------------------------------------------------------------
\* Dates and the clock
\* ------------------------------------------------------------------------
IsDigit(c) == c \in DigitSet

\* the date strings new Date() accepts here: YYYY-MM-DD, alone or followed by
\* THH:MM:SSZ; every other string of the inputs is an Invalid Date
IsIsoDate(s) ==
    /\ Len(s) \in {10, 20}
    /\ \A i \in {1, 2, 3, 4, 6, 7, 9, 10} : IsDigit(s[i])
    /\ s[5] = "-" /\ s[8] = "-"
    /\ Len(s) = 20 =>
         /\ s[11] = "T" /\ s[14] = ":" /\ s[17] = ":" /\ s[20] = "Z"
         /\ \A i \in {12, 13, 15, 16, 18, 19} : IsDigit(s[i])

\* new Date(x) is an Invalid Date, so that toISOString() throws a RangeError
InvalidDate(x) ==
    CASE x.t = "str" -> ~IsIsoDate(x.v)
      [] x.t \in {"num", "bool", "null"} -> FALSE
      [] OTHER -> TRUE

Unknown == <<"U","n","k","n","o","w","n">>
Epoch == <<"1","9","7","0","-","0","1","-","0","1">>

formatShortDateThrows(dateString) == Truthy(dateString) /\ InvalidDate(dateString)

\* new Date(dateString).toISOString().split('T')[0]
formatShortDate(dateString) ==
    IF ~Truthy(dateString) THEN Unknown
    ELSE IF dateString.t = "str" THEN SubSeq(dateString.v, 1, 10)
    ELSE Epoch

\* formatDateWithDay fails exactly when its call of formatShortDate does
formatDateWithDayThrows(dateString) == formatShortDateThrows(dateString)

\* new Date().toISOString() at minute c of the run
NowIso(c) ==
    <<"2","0","2","6","-","0","1","-","0","1","T","1","2",":">> \o <<DigitSeq[(c \div 10) + 1], DigitSeq[(c % 10) + 1]>> \o <<":","0","0",".","0","0","0","Z">>

\* String.prototype.replace with a string pattern: the first occurrence goes
RemoveFirst(s, ch) ==
    LET hits == {i \in DOMAIN s : s[i] = ch}
        k == CHOOSE i \in hits : \A j \in hits : i <= j
    IN IF hits = {} THEN s ELSE SubSeq(s, 1, k - 1) \o SubSeq(s, k + 1, Len(s))

\* TimeSuffix without the replace(':', ''): "HH:MM"
TimeSuffixKeepsColon(c) == SubSeq(NowIso(c), 12, 16)

\* line 432: new Date().toISOString().slice(11, 16).replace(':', '')
TimeSuffix(c) == RemoveFirst(SubSeq(NowIso(c), 12, 16), ":")

\* String(n) for a natural number
RECURSIVE NumToStr(_)
NumToStr(n) ==
    IF n < 10 THEN <<DigitSeq[n + 1]>>
    ELSE NumToStr(n \div 10) \o <<DigitSeq[(n % 10) + 1]>>

\* ------------------------------------------------------------------------
\* extractAttachments
\* ------------------------------------------------------------------------
extensionMap ==
    (<<"t","e","x","t","/","p","l","a","i","n">>
        :> <<".","t","x","t">>)
    @@ (<<"t","e","x","t","/","m","a","r","k","d","o","w","n">>
        :> <<".","m","d">>)
    @@ (<<"t","e","x","t","/","h","t","m","l">>
        :> <<".","h","t","m","l">>)
    @@ (<<"a","p","p","l","i","c","a","t","i","o","n","/","p","d","f">>
        :> <<".","p","d","f">>)
    @@ (<<"a","p","p","l","i","c","a","t","i","o","n","/","v","n","d",".","o","p","e","n","x","m","l","f","o","r","m","a","t","s","-","o","f","f","i","c","e","d","o","c","u","m","e","n","t",".","w","o","r","d","p","r","o","c","e","s","s","i","n","g","m","l",".","d","o","c","u","m","e","n","t">>
        :> <<".","d","o","c","x">>)

\* message.attachments && message.attachments.length > 0
HasAttachments(message) ==
    LET a == Prop(message, kAttachments)
    IN Truthy(a) /\ LengthOf(a).t = "num" /\ LengthOf(a).v > 0

\* fs.existsSync
Exists(path, dirs, files) == path \in dirs \/ path \in DOMAIN files

\* fs.writeFileSync succeeds only into an existing directory and not onto one
Writable(path, dirs) ==
    /\ path[Len(path)] # "/"
    /\ PathDir(path) \in dirs
    /\ path \notin dirs

\* content.charCodeAt is not a function
HashThrows(content) == content.t = "arr" /\ Len(content.v) > 0

\* FinalFileName without the usedFilenames.has test
FinalFileNameNoCheck(fileName, content, used) == fileName

\* lines 260-266: the resolved name, or name_hash.ext when it is already used
FinalFileName(fileName, content, used) ==
    IF fileName \in used
    THEN PathName(fileName) \o <<"_">> \o generateContentHash(content) \o PathExt(fileName)
    ELSE fileName

\* line 240: attachment.file_name || `attachment_${messageIndex}_${attachmentIndex}`
OriginalName(attachment, messageIndex, attachmentIndex) ==
    OrElse(Prop(attachment, kFileName),
           Str(<<"a","t","t","a","c","h","m","e","n","t","_">> \o NumToStr(messageIndex)
               \o <<"_">> \o NumToStr(attachmentIndex)))

\* line 241: attachment.extracted_content || ''
Content(attachment) == OrElse(Prop(attachment, kExtractedContent), Str(<<>>))

\* lines 246-257: the name, with an extension for the file type when it has none
ResolvedName(originalName, fileType) ==
    IF PathExt(originalName) = <<>> /\ Truthy(fileType)
    THEN originalName \o (IF fileType.t = "str" /\ fileType.v \in DOMAIN extensionMap
                          THEN extensionMap[fileType.v] ELSE <<".","t","x","t">>)
    ELSE originalName

\* AttachmentFailed with the failed attachment listed in attachmentInfo
AttachmentFailedListed(acc, attachment, messageIndex, used, resolved, final, path) ==
    [acc EXCEPT !.ord = acc.ord + 1, !.used = used,
                !.info = Append(@, [originalName |-> resolved, fileName |-> final,
                                    relativePath |-> path, fileSize |-> Num(0),
                                    messageIndex |-> messageIndex + 1]),
                !.log = Append(@, [ord |-> acc.ord + 1, message |-> messageIndex + 1,
                                   resolved |-> resolved, name |-> final,
                                   path |-> path, content |-> Content(attachment),
                                   wrote |-> FALSE])]

\* lines 282-284: the catch; acc keeps its files and its attachmentInfo
AttachmentFailed(acc, attachment, messageIndex, used, resolved, final, path) ==
    [acc EXCEPT !.ord = acc.ord + 1, !.used = used,
                !.log = Append(@, [ord |-> acc.ord + 1, message |-> messageIndex + 1,
                                   resolved |-> resolved, name |-> final,
                                   path |-> path, content |-> Content(attachment),
                                   wrote |-> FALSE])]

\* lines 270-280: write the file, push its attachmentInfo entry
AttachmentWrite(acc, attachment, messageIndex, conversationFileName, dirs, failing, originalName, fileName, finalFileName, attachmentPath) ==
    IF \/ acc.ord + 1 \in failing
       \/ Content(attachment).t # "str"
       \/ ~Writable(attachmentPath, dirs)
    THEN AttachmentFailed(acc, attachment, messageIndex, acc.used \cup {finalFileName},
                          fileName, finalFileName, attachmentPath)
    ELSE [ord |-> acc.ord + 1,
          used |-> acc.used \cup {finalFileName},
          files |-> (attachmentPath :> Content(attachment)) @@ acc.files,
          info |-> Append(acc.info,
                     [originalName |-> originalName,
                      fileName |-> finalFileName,
                      relativePath |-> <<".", "/">> \o conversationFileName
                                       \o <<"_","a","t","t","a","c","h","m","e","n","t","s","/">> \o finalFileName,
                      fileSize |-> OrElse(Prop(attachment, kFileSize),
                                          LengthOf(Content(attachment))),
                      messageIndex |-> messageIndex + 1]),
          log |-> Append(acc.log, [ord |-> acc.ord + 1, message |-> messageIndex + 1,
                                   resolved |-> fileName, name |-> finalFileName,
                                   path |-> attachmentPath,
                                   content |-> Content(attachment),
                                   wrote |-> TRUE])]

\* lines 268-270: usedFilenames.add(finalFileName), path.join(attachmentDir, finalFileName)
AttachmentStore(acc, attachment, messageIndex, conversationFileName, attachmentDir, dirs, failing, originalName, fileName, finalFileName) ==
    AttachmentWrite(acc, attachment, messageIndex, conversationFileName, dirs, failing,
                    originalName, fileName, finalFileName,
                    PathJoin(attachmentDir, finalFileName))

\* lines 259-267: the collision test on the resolved name
AttachmentResolve(acc, attachment, messageIndex, conversationFileName, attachmentDir, dirs, failing, originalName, fileName) ==
    IF fileName \in acc.used /\ HashThrows(Content(attachment))
    THEN AttachmentFailed(acc, attachment, messageIndex, acc.used, fileName, <<>>, <<>>)
    ELSE AttachmentStore(acc, attachment, messageIndex, conversationFileName,
                         attachmentDir, dirs, failing, originalName, fileName,
                         FinalFileName(fileName, Content(attachment), acc.used))

\* One iteration of the inner forEach (the try block and its catch).
\* acc: the used filenames, the files on disk, the attachmentInfo list, the
\* log of attempts and the count of attachments visited so far.
\* failing: the visits whose write the filesystem refuses.
AttachmentStep(acc, attachment, messageIndex, attachmentIndex, conversationFileName, attachmentDir, dirs, failing) ==
    IF \/ PropThrows(attachment)
       \/ OriginalName(attachment, messageIndex, attachmentIndex).t # "str"
    THEN AttachmentFailed(acc, attachment, messageIndex, acc.used, <<>>, <<>>, <<>>)
    ELSE AttachmentResolve(acc, attachment, messageIndex, conversationFileName,
                           attachmentDir, dirs, failing,
                           OriginalName(attachment, messageIndex, attachmentIndex).v,
                           ResolvedName(OriginalName(attachment, messageIndex, attachmentIndex).v,
                                        Prop(attachment, kFileType)))

\* message.attachments.forEach(...)
RECURSIVE AttachmentLoop(_, _, _, _, _, _, _, _)
AttachmentLoop(acc, attachments, messageIndex, attachmentIndex, conversationFileName, attachmentDir, dirs, failing) ==
    IF attachmentIndex >= Len(attachments) THEN acc
    ELSE AttachmentLoop(
            AttachmentStep(acc, attachments[attachmentIndex + 1], messageIndex,
                           attachmentIndex, conversationFileName, attachmentDir,
                           dirs, failing),
            attachments, messageIndex, attachmentIndex + 1, conversationFileName,
            attachmentDir, dirs, failing)

\* the second conversation.chat_messages.forEach(...); a message whose
\* attachments value has a positive length but no forEach ends it with a throw
RECURSIVE MessageLoop(_, _, _, _, _, _, _)
MessageLoop(acc, messages, messageIndex, conversationFileName, attachmentDir, dirs, failing) ==
    IF messageIndex >= Len(messages) THEN [threw |-> FALSE, acc |-> acc]
    ELSE LET message == messages[messageIndex + 1]
         IN IF ~HasAttachments(message)
            THEN MessageLoop(acc, messages, messageIndex + 1, conversationFileName,
                             attachmentDir, dirs, failing)
            ELSE IF Prop(message, kAttachments).t # "arr"
                 THEN [threw |-> TRUE, acc |-> acc]
                 ELSE MessageLoop(
                        AttachmentLoop(acc, Prop(message, kAttachments).v, messageIndex,
                                       0, conversationFileName, attachmentDir, dirs,
                                       failing),
                        messages, messageIndex + 1, conversationFileName,
                        attachmentDir, dirs, failing)

\* extractAttachments returns early or throws: nothing was made or written
NoAttachments(threw, dirs, files) ==
    [threw |-> threw, attachmentInfo |-> <<>>, dirs |-> dirs, files |-> files,
     log |-> <<>>]

\* lines 227-229: mkdirSync(attachmentDir, { recursive: true }) when it is absent
MakeAttachmentDir(attachmentDir, dirs, files) ==
    IF Exists(attachmentDir, dirs, files) THEN dirs
    ELSE dirs \cup {attachmentDir, PathDir(attachmentDir)}

\* line 289: return attachmentInfo, after the second pass
Extracted(run, dirs) ==
    [threw |-> run.threw, attachmentInfo |-> run.acc.info, dirs |-> dirs,
     files |-> run.acc.files, log |-> run.acc.log]

\* lines 226-288: the directory, then the second pass
ExtractInto(messages, conversationFileName, attachmentDir, dirs, files, mkdirOk, failing) ==
    IF ~Exists(attachmentDir, dirs, files) /\ ~mkdirOk THEN NoAttachments(TRUE, dirs, files)
    ELSE Extracted(MessageLoop([ord |-> 0, used |-> {}, files |-> files,
                                info |-> <<>>, log |-> <<>>],
                               messages, 0, conversationFileName, attachmentDir,
                               MakeAttachmentDir(attachmentDir, dirs, files), failing),
                   MakeAttachmentDir(attachmentDir, dirs, files))

\* extractAttachments without the return at line 223: the directory is made
\* whether or not a message has attachments
extractAttachmentsEager(conversation, conversationFileName, dirs, files, mkdirOk, failing) ==
    LET messages == Prop(conversation, kChatMessages)
    IN IF PropThrows(conversation) THEN NoAttachments(TRUE, dirs, files)
       ELSE IF ~Truthy(messages) THEN NoAttachments(FALSE, dirs, files)
       ELSE IF messages.t # "arr" THEN NoAttachments(TRUE, dirs, files)
       ELSE IF \E i \in DOMAIN messages.v : PropThrows(messages.v[i])
            THEN NoAttachments(TRUE, dirs, files)
       ELSE ExtractInto(messages.v, conversationFileName,
                        PathJoin(OUTPUT_DIR, conversationFileName
                                   \o <<"_","a","t","t","a","c","h","m","e","n","t","s">>),
                        dirs, files, mkdirOk, failing)

\* Result: threw, the attachmentInfo list, the directories and files after the
\* call, and the log of attachment visits.  mkdirOk and failing are the
\* filesystem's answers to mkdirSync and to each writeFileSync.
extractAttachments(conversation, conversationFileName, dirs, files, mkdirOk, failing) ==
    LET messages == Prop(conversation, kChatMessages)
    IN IF PropThrows(conversation) THEN NoAttachments(TRUE, dirs, files)
       ELSE IF ~Truthy(messages) THEN NoAttachments(FALSE, dirs, files)
       ELSE IF messages.t # "arr" THEN NoAttachments(TRUE, dirs, files)
       ELSE IF \E i \in DOMAIN messages.v : PropThrows(messages.v[i])
            THEN NoAttachments(TRUE, dirs, files)
       ELSE IF ~\E i \in DOMAIN messages.v : HasAttachments(messages.v[i])
            THEN NoAttachments(FALSE, dirs, files)
       ELSE ExtractInto(messages.v, conversationFileName,
                        PathJoin(OUTPUT_DIR, conversationFileName
                                   \o <<"_","a","t","t","a","c","h","m","e","n","t","s">>),
                        dirs, files, mkdirOk, failing)

\* ------------------------------------------------------------------------
\* extractTextFromContent
\* ------------------------------------------------------------------------
kInput == <<"i","n","p","u","t">>
kLanguage == <<"l","a","n","g","u","a","g","e">>
kTitle == <<"t","i","t","l","e">>
Backtick == "<backtick>"
Fence == <<Backtick, Backtick, Backtick>>

\* Array.prototype.join(','), the strings already made
RECURSIVE JoinComma(_)
JoinComma(strings) ==
    IF strings = <<>> THEN <<>>
    ELSE IF Len(strings) = 1 THEN Head(strings)
    ELSE Head(strings) \o <<",">> \o JoinComma(Tail(strings))

\* the string a template literal or join() makes of a value
RECURSIVE JsToString(_)
JsToString(x) ==
    CASE x.t = "str" -> x.v
      [] x.t = "num" -> NumToStr(x.v)
      [] x.t = "bool" -> (IF x.v THEN <<"t","r","u","e">> ELSE <<"f","a","l","s","e">>)
      [] x.t = "null" -> <<"n","u","l","l">>
      [] x.t = "undefined" -> <<"u","n","d","e","f","i","n","e","d">>
      [] x.t = "arr" -> JoinComma([i \in DOMAIN x.v |->
                                     IF x.v[i].t \in {"null", "undefined"} THEN <<>>
                                     ELSE JsToString(x.v[i])])
      [] OTHER -> <<"[","o","b","j","e","c","t"," ","O","b","j","e","c","t","]">>

\* item.type reads a property of item
extractTextFromContentThrows(content) ==
    /\ content.t = "arr"
    /\ \E i \in DOMAIN content.v : PropThrows(content.v[i])

\* BlockParts without the default title
BlockPartsUntitled(item) ==
    LET input == Prop(item, kInput)
        language == OrElse(Prop(input, kLanguage), Str(<<>>))
        title == OrElse(Prop(input, kTitle), Str(<<>>))
    IN IF Prop(item, kType) = Str(<<"t","e","x","t">>) /\ Truthy(Prop(item, kText))
       THEN <<JsToString(Prop(item, kText))>>
       ELSE IF /\ Prop(item, kType) = Str(<<"t","o","o","l","_","u","s","e">>)
               /\ Prop(item, kName) = Str(<<"a","r","t","i","f","a","c","t","s">>)
               /\ Truthy(input) /\ Truthy(Prop(input, kContent))
            THEN << <<"\n", "*", "*">> \o JsToString(title) \o <<"*", "*", "\n", "\n">>
                    \o Fence \o JsToString(language) \o <<"\n">>
                    \o JsToString(Prop(input, kContent)) \o <<"\n">> \o Fence \o <<"\n">> >>
            ELSE <<>>

\* what one block pushes onto parts
BlockParts(item) ==
    LET input == Prop(item, kInput)
        language == OrElse(Prop(input, kLanguage), Str(<<>>))
        title == OrElse(Prop(input, kTitle), Str(<<"A","r","t","i","f","a","c","t">>))
    IN IF Prop(item, kType) = Str(<<"t","e","x","t">>) /\ Truthy(Prop(item, kText))
       THEN <<JsToString(Prop(item, kText))>>
       ELSE IF /\ Prop(item, kType) = Str(<<"t","o","o","l","_","u","s","e">>)
               /\ Prop(item, kName) = Str(<<"a","r","t","i","f","a","c","t","s">>)
               /\ Truthy(input) /\ Truthy(Prop(input, kContent))
            THEN << <<"\n", "*", "*">> \o JsToString(title) \o <<"*", "*", "\n", "\n">>
                    \o Fence \o JsToString(language) \o <<"\n">>
                    \o JsToString(Prop(input, kContent)) \o <<"\n">> \o Fence \o <<"\n">> >>
            ELSE <<>>

RECURSIVE AllParts(_)
AllParts(items) == IF items = <<>> THEN <<>> ELSE BlockParts(Head(items)) \o AllParts(Tail(items))

\* parts.join('\n\n')
RECURSIVE JoinParts(_)
JoinParts(parts) ==
    IF parts = <<>> THEN <<>>
    ELSE IF Len(parts) = 1 THEN Head(parts)
    ELSE Head(parts) \o <<"\n", "\n">> \o JoinParts(Tail(parts))

extractTextFromContent(content) ==
    IF ~Truthy(content) \/ content.t # "arr" THEN <<>>
    ELSE JoinParts(AllParts(content.v))

\* ------------------------------------------------------------------------
\* convertConversationToMarkdown
\* ------------------------------------------------------------------------
\* lines 431-435: the stem, with T<HHMM> appended when the name is taken
Disambiguate(stem, taken, clock) ==
    IF taken THEN stem \o <<"T">> \o TimeSuffix(clock) ELSE stem

\* RenderMessage listing every attachment of the conversation
RenderMessageAllAttachments(message, messageNumber, attachments) ==
    [senderName |-> IF Prop(message, kSender) = Str(<<"h","u","m","a","n">>) THEN <<"H","u","m","a","n">> ELSE <<"A","s","s","i","s","t","a","n","t">>,
     messageNumber |-> messageNumber,
     messageText |-> OrElse(OrElse(Str(extractTextFromContent(Prop(message, kContent))),
                                   Prop(message, kText)), Str(<<>>)),
     messageAttachments |-> attachments]

\* RenderMessage with the legacy text tried before the content
RenderMessageTextFirst(message, messageNumber, attachments) ==
    [senderName |-> IF Prop(message, kSender) = Str(<<"h","u","m","a","n">>) THEN <<"H","u","m","a","n">> ELSE <<"A","s","s","i","s","t","a","n","t">>,
     messageNumber |-> messageNumber,
     messageText |-> OrElse(OrElse(Prop(message, kText),
                                   Str(extractTextFromContent(Prop(message, kContent)))),
                            Str(<<>>)),
     messageAttachments |-> SelectSeq(attachments,
                                LAMBDA att : att.messageIndex = messageNumber)]

\* the part of the document one message contributes
RenderMessage(message, messageNumber, attachments) ==
    [senderName |-> IF Prop(message, kSender) = Str(<<"h","u","m","a","n">>) THEN <<"H","u","m","a","n">> ELSE <<"A","s","s","i","s","t","a","n","t">>,
     messageNumber |-> messageNumber,
     messageText |-> OrElse(OrElse(Str(extractTextFromContent(Prop(message, kContent))),
                                   Prop(message, kText)), Str(<<>>)),
     messageAttachments |-> SelectSeq(attachments,
                                LAMBDA att : att.messageIndex = messageNumber)]

\* line 411: conversation.name || `Conversation_${index + 1}`
Title(conversation, index) ==
    OrElse(Prop(conversation, kName),
           Str(<<"C","o","n","v","e","r","s","a","t","i","o","n","_">> \o NumToStr(index + 1)))

\* lines 420-421: the creation date in the filename
CreatedDateShort(conversation) ==
    IF Truthy(Prop(conversation, kCreatedAt))
    THEN formatShortDate(Prop(conversation, kCreatedAt))
    ELSE <<"u","n","k","n","o","w","n","-","d","a","t","e">>

\* FileStem with "unknown-date" for an absent update date
FileStemUpdatedUnknown(conversation, index) ==
    CreatedDateShort(conversation) \o <<"_">>
    \o sanitizeTitle(Title(conversation, index)) \o <<"_">>
    \o (IF Truthy(Prop(conversation, kUpdatedAt))
        THEN formatShortDate(Prop(conversation, kUpdatedAt))
        ELSE <<"u","n","k","n","o","w","n","-","d","a","t","e">>)

\* lines 420-427: <created>_<title>_<updated>, the filename without ".md"
FileStem(conversation, index) ==
    CreatedDateShort(conversation) \o <<"_">>
    \o sanitizeTitle(Title(conversation, index)) \o <<"_">>
    \o (IF Truthy(Prop(conversation, kUpdatedAt))
        THEN formatShortDate(Prop(conversation, kUpdatedAt))
        ELSE CreatedDateShort(conversation))

\* convertConversationToMarkdown throws
ConvertFailed(dirs, files, log) ==
    [threw |-> TRUE, filename |-> <<>>, content |-> <<>>, attachmentCount |-> 0,
     dirs |-> dirs, files |-> files, log |-> log, taken |-> FALSE]

\* conversation.chat_messages && conversation.chat_messages.length > 0
HasMessages(messages) ==
    Truthy(messages) /\ LengthOf(messages).t = "num" /\ LengthOf(messages).v > 0

\* lines 440-505: the document, once the attachments are extracted
Rendered(conversation, index, filename, taken, att) ==
    LET messages == Prop(conversation, kChatMessages)
    IN IF att.threw THEN ConvertFailed(att.dirs, att.files, att.log)
       ELSE IF HasMessages(messages)
               /\ \E i \in DOMAIN messages.v :
                     extractTextFromContentThrows(Prop(messages.v[i], kContent))
            THEN ConvertFailed(att.dirs, att.files, att.log)
       ELSE [threw |-> FALSE,
             filename |-> filename,
             content |-> [title |-> JsToString(Title(conversation, index)),
                          messageCount |-> IF Truthy(messages) THEN LengthOf(messages)
                                           ELSE Num(0),
                          messages |-> IF HasMessages(messages)
                                       THEN [i \in DOMAIN messages.v |->
                                               RenderMessage(messages.v[i], i,
                                                             att.attachmentInfo)]
                                       ELSE <<>>,
                          noMessages |-> ~HasMessages(messages),
                          attachmentNote |-> Len(att.attachmentInfo)],
             attachmentCount |-> Len(att.attachmentInfo),
             dirs |-> att.dirs, files |-> att.files, log |-> att.log,
             taken |-> taken]

\* Named with the attachments extracted under the undecorated name
NamedUndecoratedDir(conversation, index, dirs, files, clock, mkdirOk, failing, stem, taken) ==
    Rendered(conversation, index,
             Disambiguate(stem, taken, clock) \o <<".","m","d">>, taken,
             extractAttachments(conversation, stem, dirs, files, mkdirOk, failing))

\* lines 431-438: the name settled, the attachments extracted under it
Named(conversation, index, dirs, files, clock, mkdirOk, failing, stem, taken) ==
    Rendered(conversation, index,
             Disambiguate(stem, taken, clock) \o <<".","m","d">>, taken,
             extractAttachments(conversation, Disambiguate(stem, taken, clock),
                                dirs, files, mkdirOk, failing))

\* lines 426-431: fs.existsSync(path.join(OUTPUT_DIR, filename))
Stemmed(conversation, index, dirs, files, clock, mkdirOk, failing, stem) ==
    Named(conversation, index, dirs, files, clock, mkdirOk, failing, stem,
          Exists(PathJoin(OUTPUT_DIR, stem \o <<".","m","d">>), dirs, files))

\* Result: threw, the filename, the document, the attachment count, and the
\* directories, files and attachment log after the call.  clock is the minute
\* new Date() reads; mkdirOk and failing as in extractAttachments.
convertConversationToMarkdown(conversation, index, dirs, files, clock, mkdirOk, failing) ==
    IF PropThrows(conversation) THEN ConvertFailed(dirs, files, <<>>)
    ELSE IF \/ formatDateWithDayThrows(Prop(conversation, kCreatedAt))
            \/ formatDateWithDayThrows(Prop(conversation, kUpdatedAt))
         THEN ConvertFailed(dirs, files, <<>>)
    ELSE Stemmed(conversation, index, dirs, files, clock, mkdirOk, failing,
                 FileStem(conversation, index))

\* ------------------------------------------------------------------------
\* trackSchemaChanges
\* ------------------------------------------------------------------------
kLastUpdated == <<"l","a","s","t","_","u","p","d","a","t","e","d">>
kTotal == <<"t","o","t","a","l","_","c","o","n","v","e","r","s","a","t","i","o","n","s","_","a","n","a","l","y","z","e","d">>
kSampleKeys == <<"s","a","m","p","l","e","_","c","o","n","v","e","r","s","a","t","i","o","n","_","k","e","y","s">>

\* Object.keys(x) throws a TypeError for null
ObjectKeysThrows(x) == x.t \in {"null", "undefined"}

ObjectKeys(x) ==
    CASE x.t = "obj" -> DOMAIN x.v
      [] x.t \in {"str", "arr"} -> {NumToStr(i - 1) : i \in DOMAIN x.v}
      [] OTHER -> {}

\* new Set(x) throws a TypeError when x is not iterable
NewSetThrows(x) == x.t \in {"num", "bool", "obj", "function"}

NewSet(x) ==
    CASE x.t = "arr" -> Range(x.v)
      [] x.t = "str" -> {Str(<<x.v[i]>>) : i \in DOMAIN x.v}
      [] OTHER -> {}

StrArray(seq) == Arr([i \in DOMAIN seq |-> Str(seq[i])])

\* conversations.forEach(conv => collectKeys(conv, '', currentKeys))
CurrentKeys(conversations) ==
    UNION {collectKeys(conversations[i], <<>>) : i \in DOMAIN conversations}

\* the currentSchema object (lines 337-342), when building it does not throw
CurrentSchema(conversations, clock) ==
    Obj((kKeys :> StrArray(SortStrings(CurrentKeys(conversations))))
        @@ (kLastUpdated :> Str(NowIso(clock)))
        @@ (kTotal :> Num(Len(conversations)))
        @@ (kSampleKeys :> IF Len(conversations) > 0
                           THEN StrArray(SortStrings(ObjectKeys(conversations[1])))
                           ELSE Arr(<<>>)))

NoFile == [exists |-> FALSE, valid |-> FALSE, value |-> Null]
\* a file holding the text JSON.stringify(value)
JsonFile(value) == [exists |-> TRUE, valid |-> TRUE, value |-> value]
\* a file whose text JSON.parse rejects
GarbageFile == [exists |-> TRUE, valid |-> FALSE, value |-> Null]

\* trackSchemaChanges throws: nothing is written
TrackerThrew(where, didRead, readFailed, schemaFile) ==
    [threw |-> TRUE, where |-> where, outcome |-> "none", added |-> {},
     removed |-> {}, warnings |-> IF readFailed /\ didRead THEN {"read"} ELSE {},
     read |-> didRead, writeAttempted |-> FALSE, written |-> Null,
     schemaFile |-> schemaFile]

\* Compared with the two differences exchanged
ComparedSwapped(schemaFile, writeOk, readFailed, currentSchema, previousSchema, oldKeys, newKeys) ==
    [threw |-> FALSE, where |-> "",
     outcome |-> IF ~Truthy(previousSchema) THEN "first_run"
                 ELSE IF newKeys \ oldKeys # {} \/ oldKeys \ newKeys # {} THEN "changed"
                 ELSE "unchanged",
     added |-> IF Truthy(previousSchema) THEN oldKeys \ newKeys ELSE {},
     removed |-> IF Truthy(previousSchema) THEN newKeys \ oldKeys ELSE {},
     warnings |-> (IF readFailed THEN {"read"} ELSE {})
                  \cup (IF writeOk THEN {} ELSE {"write"}),
     read |-> schemaFile.exists,
     writeAttempted |-> TRUE,
     written |-> currentSchema,
     schemaFile |-> IF writeOk THEN JsonFile(currentSchema) ELSE schemaFile]

\* lines 356-395: the report against previousSchema, then the write
Compared(schemaFile, writeOk, readFailed, currentSchema, previousSchema, oldKeys, newKeys) ==
    [threw |-> FALSE, where |-> "",
     outcome |-> IF ~Truthy(previousSchema) THEN "first_run"
                 ELSE IF newKeys \ oldKeys # {} \/ oldKeys \ newKeys # {} THEN "changed"
                 ELSE "unchanged",
     added |-> IF Truthy(previousSchema) THEN newKeys \ oldKeys ELSE {},
     removed |-> IF Truthy(previousSchema) THEN oldKeys \ newKeys ELSE {},
     warnings |-> (IF readFailed THEN {"read"} ELSE {})
                  \cup (IF writeOk THEN {} ELSE {"write"}),
     read |-> schemaFile.exists,
     writeAttempted |-> TRUE,
     written |-> currentSchema,
     schemaFile |-> IF writeOk THEN JsonFile(currentSchema) ELSE schemaFile]

\* lines 344-357: previousSchema as read, new Set(previousSchema.keys)
ReadPrevious(schemaFile, writeOk, readFailed, currentSchema, previousSchema) ==
    IF Truthy(previousSchema) /\ NewSetThrows(Prop(previousSchema, kKeys))
    THEN TrackerThrew("previous_keys", TRUE, readFailed, schemaFile)
    ELSE Compared(schemaFile, writeOk, readFailed, currentSchema, previousSchema,
                  NewSet(Prop(previousSchema, kKeys)),
                  NewSet(Prop(currentSchema, kKeys)))

\* Result: threw, the report (outcome, added, removed, warnings), whether the
\* snapshot was read and whether its write was attempted, and the snapshot
\* file after the call.  readOk and writeOk are the filesystem's answers.
trackSchemaChanges(conversations, schemaFile, clock, readOk, writeOk) ==
    IF Len(conversations) > 0 /\ ObjectKeysThrows(conversations[1])
    THEN TrackerThrew("sample_keys", FALSE, FALSE, schemaFile)
    ELSE ReadPrevious(schemaFile, writeOk,
              schemaFile.exists /\ (~readOk \/ ~schemaFile.valid),
              CurrentSchema(conversations, clock),
              IF schemaFile.exists /\ readOk /\ schemaFile.valid
              THEN schemaFile.value ELSE Null)

\* ------------------------------------------------------------------------
\* Bounds and inputs
\* ------------------------------------------------------------------------
\* the most records in the input array
MaxConvs == 2
\* the last minute the clock reaches during a run
MaxClock == 1

D1 == Str(<<"2","0","2","5","-","0","9","-","0","6","T","1","0",":","0","0",":","0","0","Z">>)
D2 == Str(<<"2","0","2","5","-","0","9","-","0","7","T","0","8",":","3","0",":","0","0","Z">>)

TextBlock == Obj((kType :> Str(<<"t","e","x","t">>)) @@ (kText :> Str(<<"h","i">>)))
MsgHi ==
    Obj((kSender :> Str(<<"h","u","m","a","n">>)) @@ (kCreatedAt :> D1)
        @@ (kContent :> Arr(<<TextBlock>>)) @@ (kAttachments :> Arr(<<>>)))
AttX ==
    Obj((kFileName :> Str(<<"a",".","t","x","t">>)) @@ (kFileType :> Str(<<"t","e","x","t","/","p","l","a","i","n">>))
        @@ (kExtractedContent :> Str(<<"x">>)))
MsgAtt ==
    Obj((kSender :> Str(<<"a","s","s","i","s","t","a","n","t">>)) @@ (kText :> Str(<<"s","e","e"," ","f","i","l","e","s">>))
        @@ (kAttachments :> Arr(<<AttX>>)))

\* a well-formed conversation without attachments
ConvA ==
    Obj((kName :> Str(<<"M","y"," ","C","h","a","t">>)) @@ (kUuid :> Str(<<"u","1">>)) @@ (kCreatedAt :> D1)
        @@ (kUpdatedAt :> D2) @@ (kChatMessages :> Arr(<<MsgHi>>)))
\* a well-formed conversation with an attachment
ConvB ==
    Obj((kName :> Str(<<"N","o","t","e","s">>)) @@ (kUuid :> Str(<<"u","2">>)) @@ (kCreatedAt :> D1)
        @@ (kChatMessages :> Arr(<<MsgAtt>>)))
\* chat_messages is a string
ConvBad ==
    Obj((kName :> Str(<<"B","a","d">>)) @@ (kCreatedAt :> D1) @@ (kChatMessages :> Str(<<"o","o","p","s">>)))

\* the records of the longer inputs, and those of the inputs of one record
ConvSamples == {Null, ConvA, ConvB, ConvBad}
OddSamples == ConvSamples \cup {Num(5)}

\* two attachments in one message
ConvC ==
    Obj((kName :> Str(<<"F","i","l","e","s">>)) @@ (kCreatedAt :> D1)
        @@ (kChatMessages :> Arr(<<Obj((kSender :> Str(<<"h","u","m","a","n">>))
                                       @@ (kText :> Str(<<"t","w","o">>))
                                       @@ (kAttachments :> Arr(<<AttX, AttX>>)))>>)))
\* a record with this value under chat_messages
ConvOf(messages) == Obj((kName :> Str(<<"O","d","d">>)) @@ (kCreatedAt :> D1) @@ (kChatMessages :> messages))
\* no chat_messages at all
ConvNone == Obj((kName :> Str(<<"O","d","d">>)) @@ (kCreatedAt :> D1))

\* chat_messages that is not an array
NonArrays ==
    {Num(0), Bool(FALSE), Str(<<>>), Num(5), Bool(TRUE), Obj(<<>>), Str(<<"o","o","p","s">>)}

\* messages as an export can hold them: null, not an object, without sender
\* and timestamp, with a null block, with attachments that are not an array
MsgOdd == Obj((kSender :> Str(<<"b","o","t">>)) @@ (kContent :> Arr(<<Obj(kType :> Str(<<"t","o","o","l","_","r","e","s","u","l","t">>))>>)))
MsgNullBlock == Obj((kSender :> Str(<<"h","u","m","a","n">>)) @@ (kContent :> Arr(<<TextBlock, Null>>)))
MsgStrAtt == Obj((kSender :> Str(<<"h","u","m","a","n">>)) @@ (kAttachments :> Str(<<"a","b","c">>)))
MsgNumAtt == Obj((kText :> Str(<<"h","i">>)) @@ (kAttachments :> Num(5)))
MessageSamples == {Null, Num(5), Obj(<<>>), MsgOdd, MsgNullBlock, MsgStrAtt, MsgNumAtt}

\* an attachment named after the document of ConvA, one directory up
AttOver ==
    Obj((kFileName :> Str(<<".",".","/">> \o FileStem(ConvA, 0) \o <<".","m","d">>))
        @@ (kExtractedContent :> Str(<<"x">>)))
MsgOver ==
    Obj((kSender :> Str(<<"h","u","m","a","n">>)) @@ (kText :> Str(<<"u","p">>))
        @@ (kAttachments :> Arr(<<AttOver>>)))

\* the records of the inputs that pair a record with ConvA
ShapeSamples ==
    {ConvC, ConvNone, ConvOf(Null), ConvOf(Arr(<<>>))}
    \cup {ConvOf(Arr(<<MsgHi, MsgAtt>>)), ConvOf(Arr(<<MsgAtt, MsgHi, MsgAtt>>)), ConvOf(Arr(<<MsgOver>>))}
    \cup {ConvOf(v) : v \in NonArrays}
    \cup {ConvOf(Arr(<<m>>)) : m \in MessageSamples}

\* a record alone, before ConvA, or after it
ShapeInputs ==
    UNION { {JsonFile(Arr(<<c>>)), JsonFile(Arr(<<ConvA, c>>)), JsonFile(Arr(<<c, ConvA>>))}
            : c \in ShapeSamples }

\* records whose name and dates are absent or set, without messages
StemSamples ==
    { Obj([k \in {f \in {kName, kUuid, kCreatedAt, kUpdatedAt} :
                    \/ f = kUuid
                    \/ f = kName /\ name # Undef
                    \/ f = kCreatedAt /\ created # Undef
                    \/ f = kUpdatedAt /\ updated # Undef}
             |-> IF k = kName THEN name
                 ELSE IF k = kCreatedAt THEN created
                 ELSE IF k = kUpdatedAt THEN updated ELSE Str(<<"u","3">>)])
      : name \in {Undef, Str(<<>>), Str(<<"a","/","b"," ","c",".","d">>), Num(5)},
        created \in {Undef, D1}, updated \in {Undef, D2} }

\* such a record alone, or after ConvA
StemInputs ==
    UNION { {JsonFile(Arr(<<c>>)), JsonFile(Arr(<<ConvA, c>>))} : c \in StemSamples }

RECURSIVE SeqsUpTo(_, _)
SeqsUpTo(S, n) ==
    IF n = 0 THEN {<<>>}
    ELSE LET shorter == SeqsUpTo(S, n - 1)
         IN shorter \cup {Append(q, e) : q \in shorter, e \in S}

\* the input file: absent, not JSON, JSON that is not an array, or an array
InputFiles(samples, n) ==
    {NoFile, GarbageFile, JsonFile(ConvA), JsonFile(Null)}
    \cup {JsonFile(Arr(q)) : q \in SeqsUpTo(samples, n)}

\* the snapshot a run over <<ConvA>> leaves behind
PriorSchema == CurrentSchema(<<ConvA>>, 0)

\* the snapshot file before the run: absent, not JSON, written by a prior
\* run, or JSON of another shape
SchemaFiles ==
    {NoFile, GarbageFile, JsonFile(PriorSchema)}
    \cup {JsonFile(v) : v \in {Null, Num(5), Str(<<"a","b","c">>), Arr(<<>>), Obj(<<>>),
                               Obj(kKeys :> Null), Obj(kKeys :> Num(5)),
                               Obj(kKeys :> Str(<<"a","b">>)), Obj(kKeys :> Obj(<<>>)),
                               Obj(kKeys :> Arr(<<Str(kName), Num(5)>>))}}

NoFiles == <<>>
Cwd == <<".">>

\* the document a prior run over <<ConvA>> leaves behind
PriorRun == convertConversationToMarkdown(ConvA, 0, {Cwd, OUTPUT_DIR}, NoFiles, 0, TRUE, {})
PriorDocPath == PathJoin(OUTPUT_DIR, PriorRun.filename)

\* the directories and files a prior run leaves: its output directory, empty
\* or holding its document
Disks ==
    { [dirs |-> {Cwd, OUTPUT_DIR}, files |-> NoFiles],
      [dirs |-> {Cwd, OUTPUT_DIR}, files |-> (PriorDocPath :> PriorRun.content)] }

\* ------------------------------------------------------------------------
\* The export analyzer (src/analyze_claude_export.js)
\* ------------------------------------------------------------------------
\* line 15
OUTPUT_REPORT == <<"c","l","a","u","d","e","_","e","x","p","o","r","t","_","a","n","a","l","y","s","i","s",".","j","s","o","n">>

\* the keys of the report
kFileInfo == <<"f","i","l","e","_","i","n","f","o">>
kPath == <<"p","a","t","h">>
kAnalyzedAt == <<"a","n","a","l","y","z","e","d","_","a","t">>
kBasic == <<"b","a","s","i","c">>
kTotalConversations == <<"t","o","t","a","l","_","c","o","n","v","e","r","s","a","t","i","o","n","s">>
kTotalMessages == <<"t","o","t","a","l","_","m","e","s","s","a","g","e","s">>
kTotalAttachments == <<"t","o","t","a","l","_","a","t","t","a","c","h","m","e","n","t","s">>
kSummary == <<"s","u","m","m","a","r","y">>

\* the messages the analysis functions iterate: conv.chat_messages, if truthy
AnalyzedMessages(conv) ==
    IF Truthy(Prop(conv, kChatMessages)) THEN Prop(conv, kChatMessages).v ELSE <<>>

\* the attachments counted for a message: truthy and of positive length
CountedAttachments(message) ==
    IF Truthy(Prop(message, kAttachments))
       /\ LengthOf(Prop(message, kAttachments)).t = "num"
       /\ LengthOf(Prop(message, kAttachments)).v > 0
    THEN Prop(message, kAttachments).v ELSE <<>>

\* a TypeError in the per-message callbacks of analyzeAttachments (117-143),
\* analyzeArtifacts (186-230) or analyzeSchema (270-286)
AnalyzeMessageThrows(message) ==
    \/ PropThrows(message)
    \/ /\ Truthy(Prop(message, kAttachments))
       /\ LengthOf(Prop(message, kAttachments)).t = "num"
       /\ LengthOf(Prop(message, kAttachments)).v > 0
       /\ Prop(message, kAttachments).t # "arr"
    \/ /\ Prop(message, kAttachments).t = "arr"
       /\ \E k \in DOMAIN Prop(message, kAttachments).v :
             PropThrows(Prop(message, kAttachments).v[k])
    \/ /\ Prop(message, kContent).t = "arr"
       /\ \E k \in DOMAIN Prop(message, kContent).v :
             \/ PropThrows(Prop(message, kContent).v[k])
             \/ /\ Prop(Prop(message, kContent).v[k], kType) = Str(<<"t","e","x","t">>)
                /\ Truthy(Prop(Prop(message, kContent).v[k], kText))
                /\ Prop(Prop(message, kContent).v[k], kText).t # "str"

\* a TypeError on one record: reading a property of null (line 71), .trim of
\* a name or summary that is no string (86, 96), .forEach of chat_messages
\* that is no array (117), or a message that throws
AnalyzeRecordThrows(conv) ==
    \/ PropThrows(conv)
    \/ Truthy(Prop(conv, kName)) /\ Prop(conv, kName).t # "str"
    \/ Truthy(Prop(conv, kSummary)) /\ Prop(conv, kSummary).t # "str"
    \/ Truthy(Prop(conv, kChatMessages)) /\ Prop(conv, kChatMessages).t # "arr"
    \/ /\ Prop(conv, kChatMessages).t = "arr"
       /\ \E j \in DOMAIN Prop(conv, kChatMessages).v :
             AnalyzeMessageThrows(Prop(conv, kChatMessages).v[j])

\* lines 379-397: one of the analysis functions throws
AnalysisThrows(conversations) ==
    \E i \in DOMAIN conversations : AnalyzeRecordThrows(conversations[i])

\* lines 68-71: the sum of chat_messages.length
MessageTotal(conversations) ==
    Cardinality(UNION { { <<i, j>> : j \in DOMAIN AnalyzedMessages(conversations[i]) }
                        : i \in DOMAIN conversations })

\* lines 116-122: the sum of message.attachments.length
AttachmentTotal(conversations) ==
    Cardinality(UNION { UNION { { <<i, j, k>>
                                  : k \in DOMAIN CountedAttachments(AnalyzedMessages(conversations[i])[j]) }
                                : j \in DOMAIN AnalyzedMessages(conversations[i]) }
                        : i \in DOMAIN conversations })

\* lines 379-394: the analysisResults object, reduced to the path, the time
\* and the three totals
AnalysisResults(jsonFilePath, conversations, clock) ==
    Obj((kFileInfo :> Obj((kPath :> Str(jsonFilePath))
                          @@ (kAnalyzedAt :> Str(NowIso(clock)))))
        @@ (kBasic :> Obj((kTotalConversations :> Num(Len(conversations)))
                          @@ (kTotalMessages :> Num(MessageTotal(conversations)))))
        @@ (kAttachments :> Obj(kTotalAttachments :> Num(AttachmentTotal(conversations)))))

\* ------------------------------------------------------------------------
\* State
\* ------------------------------------------------------------------------
VARIABLES
    phase,              \* where main() stands
    inputFile,          \* conversations.json
    schemaFile,         \* claude_schema.json
    dirs,               \* the directories on disk
    files,              \* the documents and attachment files on disk, by path
    conversations,      \* the parsed array
    index,              \* the forEach index of the next record
    successCount,
    errorCount,
    totalAttachments,
    exitCode,           \* 1 once process.exit(1) ran
    fatal,              \* what the outer catch caught
    clock,              \* the wall-clock minute
    trackerLog,         \* one entry per call of trackSchemaChanges
    recordLog,          \* one entry per record the forEach visited
    attLog,             \* one entry per attachment visited
    textLog,            \* one entry per message text computed on its own
    callLog,            \* one entry per function called on its own
    start               \* the snapshot file, directories and files before the run

vars == <<phase, inputFile, schemaFile, dirs, files, conversations, index,
          successCount, errorCount, totalAttachments, exitCode, fatal, clock,
          trackerLog, recordLog, attLog, textLog, callLog, start>>

InitCommon ==
    /\ start = [schemaFile |-> schemaFile, dirs |-> dirs, files |-> files]
    /\ index = 0
    /\ successCount = 0
    /\ errorCount = 0
    /\ totalAttachments = 0
    /\ exitCode = 0
    /\ fatal = ""
    /\ clock = 0
    /\ trackerLog = <<>>
    /\ recordLog = <<>>
    /\ attLog = <<>>
    /\ textLog = <<>>
    /\ callLog = <<>>

\* Either any input over a disk as a prior run can leave it, the snapshot
\* absent or left by that run; or an input of at most one record over a fresh
\* disk, the snapshot file holding anything; or a record of another shape or
\* with other names and dates, alone or next to a well-formed one, over a
\* fresh disk without snapshot.
Init ==
    /\ phase = "start"
    /\ \/ /\ inputFile \in InputFiles(ConvSamples, MaxConvs)
          /\ schemaFile \in {NoFile, JsonFile(PriorSchema)}
          /\ \E d \in Disks : dirs = d.dirs /\ files = d.files
       \/ /\ inputFile \in InputFiles(OddSamples, 1)
          /\ schemaFile \in SchemaFiles
          /\ dirs = {Cwd} /\ files = NoFiles
       \/ /\ inputFile \in ShapeInputs \cup StemInputs
          /\ schemaFile = NoFile
          /\ dirs = {Cwd} /\ files = NoFiles
    /\ conversations = <<>>
    /\ InitCommon

\* ------------------------------------------------------------------------
\* main()
\* ------------------------------------------------------------------------
\* the outer catch: report, process.exit(1)
Fatal(cause) ==
    /\ phase' = "exited"
    /\ exitCode' = 1
    /\ fatal' = cause

\* ReadInput without the Array.isArray test: any JSON value goes on to the
\* tracker, a value that is not an array as a collection of no records
ReadInputNoArrayCheck ==
    /\ phase = "start"
    /\ \E readOk \in BOOLEAN :
         IF ~inputFile.exists THEN Fatal("missing") /\ UNCHANGED conversations
         ELSE IF ~readOk THEN Fatal("unreadable") /\ UNCHANGED conversations
         ELSE IF ~inputFile.valid THEN Fatal("not_json") /\ UNCHANGED conversations
         ELSE /\ conversations' = IF inputFile.value.t = "arr" THEN inputFile.value.v ELSE <<>>
              /\ phase' = "parsed"
              /\ UNCHANGED <<exitCode, fatal>>
    /\ UNCHANGED <<inputFile, schemaFile, dirs, files, index, successCount, errorCount,
                   totalAttachments, clock, trackerLog, recordLog, attLog, textLog, callLog, start>>

\* lines 518-535: read, parse and validate the input
ReadInput ==
    /\ phase = "start"
    /\ \E readOk \in BOOLEAN :
         IF ~inputFile.exists THEN Fatal("missing") /\ UNCHANGED conversations
         ELSE IF ~readOk THEN Fatal("unreadable") /\ UNCHANGED conversations
         ELSE IF ~inputFile.valid THEN Fatal("not_json") /\ UNCHANGED conversations
         ELSE IF inputFile.value.t # "arr" THEN Fatal("not_array") /\ UNCHANGED conversations
         ELSE /\ conversations' = inputFile.value.v
              /\ phase' = "parsed"
              /\ UNCHANGED <<exitCode, fatal>>
    /\ UNCHANGED <<inputFile, schemaFile, dirs, files, index, successCount, errorCount,
                   totalAttachments, clock, trackerLog, recordLog, attLog, textLog, callLog, start>>

\* line 538: trackSchemaChanges(conversations)
TrackSchema ==
    /\ phase = "parsed"
    /\ \E readOk \in (IF schemaFile.exists THEN BOOLEAN ELSE {TRUE}), writeOk \in BOOLEAN :
         \E r \in {trackSchemaChanges(conversations, schemaFile, clock, readOk, writeOk)} :
            /\ trackerLog' = Append(trackerLog,
                                [threw |-> r.threw, where |-> r.where,
                                 outcome |-> r.outcome, added |-> r.added,
                                 removed |-> r.removed, warnings |-> r.warnings,
                                 read |-> r.read, writeAttempted |-> r.writeAttempted,
                                 written |-> r.written, before |-> schemaFile,
                                 after |-> r.schemaFile, clock |-> clock,
                                 dirs |-> dirs, records |-> Len(recordLog)])
            /\ schemaFile' = r.schemaFile
            /\ IF r.threw THEN Fatal("tracker")
               ELSE phase' = "tracked" /\ UNCHANGED <<exitCode, fatal>>
    /\ UNCHANGED <<inputFile, dirs, files, conversations, index, successCount,
                   errorCount, totalAttachments, clock, recordLog, attLog, textLog, callLog, start>>

\* lines 541-544: create the output directory if it does not exist
EnsureOutputDir ==
    /\ phase = "tracked"
    /\ IF Exists(OUTPUT_DIR, dirs, files)
       THEN phase' = "converting" /\ UNCHANGED <<dirs, exitCode, fatal>>
       ELSE \E mkdirOk \in BOOLEAN :
              IF mkdirOk
              THEN /\ dirs' = dirs \cup {OUTPUT_DIR}
                   /\ phase' = "converting"
                   /\ UNCHANGED <<exitCode, fatal>>
              ELSE Fatal("mkdir") /\ UNCHANGED dirs
    /\ UNCHANGED <<inputFile, schemaFile, files, conversations, index, successCount,
                   errorCount, totalAttachments, clock, trackerLog, recordLog, attLog, textLog, callLog, start>>

\* the attachments the second pass of extractAttachments would visit
RECURSIVE CountAttachments(_)
CountAttachments(messages) ==
    IF messages = <<>> THEN 0
    ELSE (IF ~PropThrows(Head(messages)) /\ HasAttachments(Head(messages))
             /\ Prop(Head(messages), kAttachments).t = "arr"
          THEN Len(Prop(Head(messages), kAttachments).v) ELSE 0)
         + CountAttachments(Tail(messages))

Visits(conversation) ==
    IF PropThrows(conversation) \/ Prop(conversation, kChatMessages).t # "arr" THEN 0
    ELSE CountAttachments(Prop(conversation, kChatMessages).v)

\* the first pass of extractAttachments ends with hasAttachments set
MakesDir(conversation) ==
    /\ ~PropThrows(conversation)
    /\ Prop(conversation, kChatMessages).t = "arr"
    /\ \A i \in DOMAIN Prop(conversation, kChatMessages).v :
          ~PropThrows(Prop(conversation, kChatMessages).v[i])
    /\ \E i \in DOMAIN Prop(conversation, kChatMessages).v :
          HasAttachments(Prop(conversation, kChatMessages).v[i])

\* ProcessRecord counting a success once the document is rendered
ProcessRecordCountsRendered ==
    /\ phase = "converting"
    /\ index < Len(conversations)
    /\ LET conversation == conversations[index + 1]
           n == Visits(conversation)
       IN \E writeOk \in BOOLEAN, failing \in SUBSET (1..n),
             mkdirOk \in (IF MakesDir(conversation) THEN BOOLEAN ELSE {TRUE}) :
          \E result \in {convertConversationToMarkdown(conversation, index, dirs, files,
                                                        clock, mkdirOk, failing)} :
            LET filepath == PathJoin(OUTPUT_DIR, result.filename)
                wrote == ~result.threw /\ writeOk /\ Writable(filepath, result.dirs)
            IN /\ dirs' = result.dirs
               /\ files' = IF wrote THEN (filepath :> result.content) @@ result.files
                           ELSE result.files
               /\ successCount' = IF ~result.threw THEN successCount + 1 ELSE successCount
               /\ totalAttachments' = IF wrote THEN totalAttachments + result.attachmentCount
                                      ELSE totalAttachments
               /\ errorCount' = IF wrote THEN errorCount ELSE errorCount + 1
               /\ recordLog' = Append(recordLog,
                                 [conv |-> index + 1, rendered |-> ~result.threw,
                                  filename |-> result.filename, wrote |-> wrote,
                                  attachmentCount |-> result.attachmentCount,
                                  taken |-> result.taken, clock |-> clock,
                                  content |-> result.content,
                                  made |-> result.dirs \ dirs,
                                  mkdirRefused |-> ~mkdirOk /\ result.threw,
                                  existed |-> Exists(filepath, dirs, files)])
               /\ attLog' = attLog \o [k \in DOMAIN result.log |->
                                         [conv |-> index + 1, ord |-> result.log[k].ord,
                                          message |-> result.log[k].message,
                                          resolved |-> result.log[k].resolved,
                                          name |-> result.log[k].name,
                                          path |-> result.log[k].path,
                                          content |-> result.log[k].content,
                                          wrote |-> result.log[k].wrote]]
    /\ index' = index + 1
    /\ UNCHANGED <<phase, inputFile, schemaFile, conversations, exitCode, fatal, clock,
                   trackerLog, textLog, callLog, start>>

\* lines 552-573: one iteration of conversations.forEach, try and catch
ProcessRecord ==
    /\ phase = "converting"
    /\ index < Len(conversations)
    /\ LET conversation == conversations[index + 1]
           n == Visits(conversation)
       IN \E writeOk \in BOOLEAN, failing \in SUBSET (1..n),
             mkdirOk \in (IF MakesDir(conversation) THEN BOOLEAN ELSE {TRUE}) :
          \E result \in {convertConversationToMarkdown(conversation, index, dirs, files,
                                                        clock, mkdirOk, failing)} :
            LET filepath == PathJoin(OUTPUT_DIR, result.filename)
                wrote == ~result.threw /\ writeOk /\ Writable(filepath, result.dirs)
            IN /\ dirs' = result.dirs
               /\ files' = IF wrote THEN (filepath :> result.content) @@ result.files
                           ELSE result.files
               /\ successCount' = IF wrote THEN successCount + 1 ELSE successCount
               /\ totalAttachments' = IF wrote THEN totalAttachments + result.attachmentCount
                                      ELSE totalAttachments
               /\ errorCount' = IF wrote THEN errorCount ELSE errorCount + 1
               /\ recordLog' = Append(recordLog,
                                 [conv |-> index + 1, rendered |-> ~result.threw,
                                  filename |-> result.filename, wrote |-> wrote,
                                  attachmentCount |-> result.attachmentCount,
                                  taken |-> result.taken, clock |-> clock,
                                  content |-> result.content,
                                  made |-> result.dirs \ dirs,
                                  mkdirRefused |-> ~mkdirOk /\ result.threw,
                                  existed |-> Exists(filepath, dirs, files)])
               /\ attLog' = attLog \o [k \in DOMAIN result.log |->
                                         [conv |-> index + 1, ord |-> result.log[k].ord,
                                          message |-> result.log[k].message,
                                          resolved |-> result.log[k].resolved,
                                          name |-> result.log[k].name,
                                          path |-> result.log[k].path,
                                          content |-> result.log[k].content,
                                          wrote |-> result.log[k].wrote]]
    /\ index' = index + 1
    /\ UNCHANGED <<phase, inputFile, schemaFile, conversations, exitCode, fatal, clock,
                   trackerLog, textLog, callLog, start>>

\* lines 575-585: the summary; main() returns
Summary ==
    /\ phase = "converting"
    /\ index = Len(conversations)
    /\ phase' = "done"
    /\ UNCHANGED <<inputFile, schemaFile, dirs, files, conversations, index,
                   successCount, errorCount, totalAttachments, exitCode, fatal, clock,
                   trackerLog, recordLog, attLog, textLog, callLog, start>>

\* a minute passes while the records are converted
Tick ==
    /\ phase = "converting"
    /\ clock < MaxClock
    /\ clock' = clock + 1
    /\ UNCHANGED <<phase, inputFile, schemaFile, dirs, files, conversations, index,
                   successCount, errorCount, totalAttachments, exitCode, fatal,
                   trackerLog, recordLog, attLog, textLog, callLog, start>>

Next == ReadInput \/ TrackSchema \/ EnsureOutputDir \/ ProcessRecord \/ Summary \/ Tick

Spec == Init /\ [][Next]_vars

\* ------------------------------------------------------------------------
\* extractAttachments on its own
\* ------------------------------------------------------------------------
\* the most attachments in the conversation
MaxAtts == 3

\* same name as AttX, other content
AttY == Obj((kFileName :> Str(<<"a",".","t","x","t">>)) @@ (kExtractedContent :> Str(<<"y">>)))
\* a name of the form name_hash.ext, the hash that of AttY's content
AttH == Obj((kFileName :> Str(<<"a","_","7","9",".","t","x","t">>)) @@ (kExtractedContent :> Str(<<"z">>)))
\* no name, no content
AttN == Obj(kFileType :> Str(<<"t","e","x","t","/","m","a","r","k","d","o","w","n">>))

\* a name that climbs out of its directory
AttUp == Obj((kFileName :> Str(<<".",".","/","x",".","t","x","t">>)) @@ (kExtractedContent :> Str(<<"u">>)))

AttSamples == {AttX, AttY, AttH, AttN, AttUp, Null}

MsgWith(attachments) ==
    Obj((kSender :> Str(<<"h","u","m","a","n">>)) @@ (kAttachments :> Arr(attachments)))

\* the attachments in one message, or one message for each
AttConvs ==
    UNION { { Obj(kChatMessages :> Arr(<<MsgWith(q)>>)),
              Obj(kChatMessages :> Arr([i \in DOMAIN q |-> MsgWith(<<q[i]>>)])) }
            : q \in SeqsUpTo(AttSamples, MaxAtts) }

AttStem == <<"2","0","2","5","-","0","9","-","0","6","_","N","o","t","e","s","_","2","0","2","5","-","0","9","-","0","6">>

InitAtt ==
    /\ phase = "extract"
    /\ inputFile = NoFile
    /\ schemaFile = NoFile
    /\ dirs = {Cwd, OUTPUT_DIR}
    /\ files = NoFiles
    /\ InitCommon
    /\ \E c \in AttConvs : conversations = <<c>>

\* extractAttachments(conversation, conversationFileName), called once
Extract ==
    /\ phase = "extract"
    /\ \E failing \in SUBSET (1..Visits(conversations[1])), mkdirOk \in BOOLEAN :
         \E r \in {extractAttachments(conversations[1], AttStem, dirs, files,
                                      mkdirOk, failing)} :
            /\ dirs' = r.dirs
            /\ files' = r.files
            /\ attLog' = [k \in DOMAIN r.log |->
                            [conv |-> 1, ord |-> r.log[k].ord,
                             message |-> r.log[k].message,
                             resolved |-> r.log[k].resolved,
                             name |-> r.log[k].name,
                             path |-> r.log[k].path,
                             content |-> r.log[k].content,
                             wrote |-> r.log[k].wrote]]
            /\ phase' = IF r.threw THEN "extract_threw" ELSE "extracted"
    /\ UNCHANGED <<inputFile, schemaFile, conversations, index, successCount, errorCount,
                   totalAttachments, exitCode, fatal, clock, trackerLog, recordLog, textLog,
                   callLog, start>>

NextAtt == Extract

SpecAtt == InitAtt /\ [][NextAtt]_vars

\* ------------------------------------------------------------------------
\* extractAttachments over one attachment, its name and type varied
\* ------------------------------------------------------------------------
\* file_name: absent, empty, with and without an extension, a dot at either end
NameSamples ==
    {Undef, Str(<<>>), Str(<<"a",".","t","x","t">>), Str(<<"n","o","t","e","s">>),
     Str(<<"R","E","A","D","M","E",".">>), Str(<<".","e","n","v">>),
     Str(<<"a",".","t","a","r",".","g","z">>), Str(<<"v","1",".","2","/","n","o","t","e","s">>)}

\* file_type: absent, null, empty, the five of the table, others
TypeSamples ==
    {Undef, Null, Str(<<>>), Num(5), Str(<<"i","m","a","g","e","/","p","n","g">>),
     Str(<<"T","E","X","T","/","P","L","A","I","N">>)}
    \cup {Str(t) : t \in DOMAIN extensionMap}

\* an attachment with the fields that are present
AttOf(name, type) ==
    Obj([k \in {f \in {kFileName, kFileType, kExtractedContent} :
                  \/ f = kExtractedContent
                  \/ f = kFileName /\ name # Undef
                  \/ f = kFileType /\ type # Undef}
           |-> IF k = kFileName THEN name
               ELSE IF k = kFileType THEN type ELSE Str(<<"x">>)])

\* the attachment in the first message, or in the second
NamedConvs ==
    UNION { { Obj(kChatMessages :> Arr(<<MsgWith(<<AttOf(name, type)>>)>>)),
              Obj(kChatMessages :> Arr(<<MsgWith(<<>>), MsgWith(<<AttOf(name, type)>>)>>)) }
            : name \in NameSamples, type \in TypeSamples }

InitExt ==
    /\ phase = "extract"
    /\ inputFile = NoFile
    /\ schemaFile = NoFile
    /\ dirs = {Cwd, OUTPUT_DIR}
    /\ files = NoFiles
    /\ InitCommon
    /\ \E c \in NamedConvs : conversations = <<c>>

SpecExt == InitExt /\ [][NextAtt]_vars

\* ------------------------------------------------------------------------
\* The text of one message on its own
\* ------------------------------------------------------------------------
\* the most blocks in the content
MaxBlocks == 2

Py == Str(<<"p","y">>)
Artifacts == Str(<<"a","r","t","i","f","a","c","t","s">>)
ToolUseType == Str(<<"t","o","o","l","_","u","s","e">>)
ToolUse(name, input) == Obj((kType :> ToolUseType) @@ (kName :> name) @@ (kInput :> input))

TextYo == Obj((kType :> Str(<<"t","e","x","t">>)) @@ (kText :> Str(<<"y","o">>)))
TextEmpty == Obj((kType :> Str(<<"t","e","x","t">>)) @@ (kText :> Str(<<>>)))
\* a text without a type
TextUntyped == Obj(kText :> Str(<<"h","i">>))
ArtFull ==
    ToolUse(Artifacts, Obj((kContent :> Str(<<"x","=","1">>)) @@ (kLanguage :> Py)
                            @@ (kTitle :> Str(<<"T">>))))
ArtBare == ToolUse(Artifacts, Obj(kContent :> Str(<<"x","=","1">>)))
ArtEmpty == ToolUse(Artifacts, Obj((kContent :> Str(<<>>)) @@ (kTitle :> Str(<<"T">>))))
ArtNoInput == Obj((kType :> ToolUseType) @@ (kName :> Artifacts))
ToolOther == ToolUse(Str(<<"b","a","s","h">>), Obj(kContent :> Str(<<"l","s">>)))
ToolResult == Obj((kType :> Str(<<"t","o","o","l","_","r","e","s","u","l","t">>)) @@ (kText :> Str(<<"o","k">>)))

BlockSamples ==
    {TextBlock, TextYo, TextEmpty, TextUntyped, ArtFull, ArtBare, ArtEmpty, ArtNoInput,
     ToolOther, ToolResult, Null, Num(5)}

\* content: absent, null, not an array, or an array of blocks
ContentSamples ==
    {Undef, Null, Str(<<"r","a","w">>), Obj(<<>>)}
    \cup {Arr(q) : q \in SeqsUpTo(BlockSamples, MaxBlocks)}

\* the legacy text: absent, empty, or set
Legacy == Str(<<"l","e","g","a","c","y">>)
TextSamples == {Undef, Str(<<>>), Legacy}

\* a message with the fields that are present
MsgOf(content, text) ==
    Obj([k \in {f \in {kSender, kContent, kText} :
                  \/ f = kSender
                  \/ f = kContent /\ content # Undef
                  \/ f = kText /\ text # Undef}
           |-> IF k = kSender THEN Str(<<"h","u","m","a","n">>)
               ELSE IF k = kContent THEN content ELSE text])

InitText ==
    /\ phase = "text"
    /\ inputFile = NoFile
    /\ schemaFile = NoFile
    /\ dirs = {Cwd, OUTPUT_DIR}
    /\ files = NoFiles
    /\ InitCommon
    /\ \E content \in ContentSamples, text \in TextSamples :
          conversations = <<Obj(kChatMessages :> Arr(<<MsgOf(content, text)>>))>>

\* line 462: extractTextFromContent(message.content) || message.text || ''
MessageText ==
    /\ phase = "text"
    /\ \E message \in {Prop(conversations[1], kChatMessages).v[1]} :
         IF extractTextFromContentThrows(Prop(message, kContent))
         THEN /\ phase' = "text_threw"
              /\ textLog' = <<[threw |-> TRUE, extracted |-> <<>>, messageText |-> Undef]>>
         ELSE /\ phase' = "texted"
              /\ textLog' = <<[threw |-> FALSE,
                                extracted |-> extractTextFromContent(Prop(message, kContent)),
                                messageText |-> RenderMessage(message, 1, <<>>).messageText]>>
    /\ UNCHANGED <<inputFile, schemaFile, dirs, files, conversations, index, successCount,
                   errorCount, totalAttachments, exitCode, fatal, clock, trackerLog,
                   recordLog, attLog, callLog, start>>

NextText == MessageText

SpecText == InitText /\ [][NextText]_vars

\* ------------------------------------------------------------------------
\* sanitizeTitle on its own
\* ------------------------------------------------------------------------
\* the longest title
MaxTitle == 3

TitleChars == {"a", "B", "7", " ", "\t", "/", ".", "_"}

\* conversation.name: absent, not a string, or a string
TitleSamples ==
    {Undef, Null, Num(0), Num(5), Bool(TRUE), Obj(<<>>), Arr(<<Str(<<"a">>)>>)}
    \cup {Str(q) : q \in SeqsUpTo(TitleChars, MaxTitle)}

InitTitle ==
    /\ phase = "title"
    /\ inputFile = NoFile
    /\ schemaFile = NoFile
    /\ dirs = {Cwd, OUTPUT_DIR}
    /\ files = NoFiles
    /\ InitCommon
    /\ \E name \in TitleSamples :
          conversations = <<IF name = Undef THEN Obj(<<>>) ELSE Obj(kName :> name)>>

\* sanitizeTitle(conversation.name), and lines 411-412: the title of the
\* first record and what sanitizeTitle makes of it
Sanitize ==
    /\ phase = "title"
    /\ phase' = "titled"
    /\ callLog' = <<[sanitized |-> sanitizeTitle(Prop(conversations[1], kName)),
                     sanitizedTitle |-> sanitizeTitle(Title(conversations[1], 0))]>>
    /\ UNCHANGED <<inputFile, schemaFile, dirs, files, conversations, index, successCount,
                   errorCount, totalAttachments, exitCode, fatal, clock, trackerLog,
                   recordLog, attLog, textLog, start>>

NextTitle == Sanitize

SpecTitle == InitTitle /\ [][NextTitle]_vars

\* ------------------------------------------------------------------------
\* The key collection on its own
\* ------------------------------------------------------------------------
\* the most records in the collection
MaxRecords == 2

One == Num(1)
KeyB == Obj(<<"b">> :> One)
KeyC == Obj(<<"c">> :> One)

\* values under a key: primitives, objects, arrays whose elements differ
NestedSamples ==
    {One, Null, KeyB, Obj(<<"b">> :> KeyC), Arr(<<>>), Arr(<<KeyB, KeyC>>),
     Arr(<<One, KeyC>>), Arr(<<Arr(<<KeyC>>)>>)}

\* records: not objects, or objects of one or two keys, the empty key included
RecordSamples ==
    {Null, One, Obj(<<>>), Arr(<<KeyB>>)}
    \cup {Obj(k :> v) : k \in {<<"a">>, <<>>}, v \in NestedSamples}
    \cup {Obj((<<"a">> :> One) @@ (<<"d">> :> v)) : v \in {KeyB, Arr(<<KeyC>>)}}

InitKeys ==
    /\ phase = "keys"
    /\ inputFile = NoFile
    /\ schemaFile = NoFile
    /\ dirs = {Cwd}
    /\ files = NoFiles
    /\ InitCommon
    /\ conversations \in SeqsUpTo(RecordSamples, MaxRecords)

\* lines 333-338: every record collected into currentKeys, then sorted
CollectKeys ==
    /\ phase = "keys"
    /\ phase' = "collected"
    /\ callLog' = <<[currentKeys |-> CurrentKeys(conversations),
                     keys |-> SortStrings(CurrentKeys(conversations))]>>
    /\ UNCHANGED <<inputFile, schemaFile, dirs, files, conversations, index, successCount,
                   errorCount, totalAttachments, exitCode, fatal, clock, trackerLog,
                   recordLog, attLog, textLog, start>>

NextKeys == CollectKeys

SpecKeys == InitKeys /\ [][NextKeys]_vars

\* ------------------------------------------------------------------------
\* The export analyzer on its own
\* ------------------------------------------------------------------------
\* the report a prior analysis of <<ConvA>> leaves behind
PriorReport == AnalysisResults(INPUT_FILE, <<ConvA>>, 0)

\* the files an export may be: none, no JSON, no array, or an array of records
ExportFiles ==
    {NoFile, GarbageFile, JsonFile(ConvA), JsonFile(Arr(<<ConvA, ConvB>>))}
    \cup {JsonFile(Arr(q)) : q \in SeqsUpTo(ConvSamples, 1)}

\* the working directory: an export or none under the input name, under the
\* report name a prior report, an export or nothing, and the converter's
\* snapshot, an export or nothing under the snapshot name
AnalyzerDisks ==
    { [p \in {q \in {INPUT_FILE, OUTPUT_REPORT, SCHEMA_FILE} :
                 \/ q = INPUT_FILE /\ input.exists
                 \/ q = OUTPUT_REPORT /\ report.exists
                 \/ q = SCHEMA_FILE /\ schema.exists}
         |-> IF p = INPUT_FILE THEN input ELSE IF p = OUTPUT_REPORT THEN report ELSE schema]
      : input \in ExportFiles,
        report \in {NoFile, JsonFile(PriorReport), JsonFile(Arr(<<ConvB>>))},
        schema \in {NoFile, JsonFile(PriorSchema), JsonFile(Arr(<<ConvA>>))} }

\* process.argv.slice(2): no argument, or one of the three names
AnalyzerArgs == {<<>>, <<INPUT_FILE>>, <<OUTPUT_REPORT>>, <<SCHEMA_FILE>>}

\* start.args holds the arguments, callLog the file operations and the usage
\* message, inputFile the text read, recordLog the analysisResults
InitAnalyze ==
    /\ phase = "main"
    /\ inputFile = NoFile
    /\ schemaFile = NoFile
    /\ dirs = {Cwd}
    /\ files \in AnalyzerDisks
    /\ \E args \in AnalyzerArgs :
          start = [args |-> args, schemaFile |-> schemaFile, dirs |-> dirs, files |-> files]
    /\ conversations = <<>>
    /\ index = 0
    /\ successCount = 0
    /\ errorCount = 0
    /\ totalAttachments = 0
    /\ exitCode = 0
    /\ fatal = ""
    /\ clock \in 0..MaxClock
    /\ trackerLog = <<>>
    /\ recordLog = <<>>
    /\ attLog = <<>>
    /\ textLog = <<>>
    /\ callLog = <<>>

\* lines 405-416: the catch of analyzeClaudeExport, process.exit(1)
AnalysisFailed(cause) ==
    /\ Fatal(cause)
    /\ UNCHANGED <<files, conversations, recordLog>>

\* lines 507-524: main(); without argument the usage and process.exit(1)
AnalyzerMain ==
    /\ phase = "main"
    /\ IF Len(start.args) = 0
       THEN /\ Fatal("usage")
            /\ callLog' = Append(callLog, [op |-> "usage", path |-> <<>>])
       ELSE /\ phase' = "validating"
            /\ UNCHANGED <<exitCode, fatal, callLog>>
    /\ UNCHANGED <<inputFile, schemaFile, dirs, files, conversations, index, successCount,
                   errorCount, totalAttachments, clock, trackerLog, recordLog, attLog,
                   textLog, start>>

\* lines 357-364: fs.existsSync and fs.statSync of the input path
ValidateInput ==
    /\ phase = "validating"
    /\ IF start.args[1] \notin DOMAIN files
       THEN /\ AnalysisFailed("File not found")
            /\ callLog' = Append(callLog, [op |-> "exists", path |-> start.args[1]])
       ELSE /\ phase' = "reading"
            /\ callLog' = callLog \o <<[op |-> "exists", path |-> start.args[1]],
                                       [op |-> "stat", path |-> start.args[1]]>>
            /\ UNCHANGED <<exitCode, fatal, files, conversations, recordLog>>
    /\ UNCHANGED <<inputFile, schemaFile, dirs, index, successCount, errorCount,
                   totalAttachments, clock, trackerLog, attLog, textLog, start>>

\* lines 368-375: fs.readFileSync, JSON.parse, Array.isArray
ReadExport ==
    /\ phase = "reading"
    /\ callLog' = Append(callLog, [op |-> "read", path |-> start.args[1]])
    /\ \E readOk \in BOOLEAN :
         IF ~readOk THEN AnalysisFailed("unreadable") /\ UNCHANGED inputFile
         ELSE /\ inputFile' = files[start.args[1]]
              /\ IF ~files[start.args[1]].valid THEN AnalysisFailed("JSON")
                 ELSE IF files[start.args[1]].value.t # "arr" THEN AnalysisFailed("not an array")
                 ELSE /\ conversations' = files[start.args[1]].value.v
                      /\ phase' = "loaded"
                      /\ UNCHANGED <<exitCode, fatal, files, recordLog>>
    /\ UNCHANGED <<schemaFile, dirs, index, successCount, errorCount, totalAttachments,
                   clock, trackerLog, attLog, textLog, start>>

\* lines 379-397: the analysis functions and the console report
RunAnalysis ==
    /\ phase = "loaded"
    /\ IF AnalysisThrows(conversations)
       THEN AnalysisFailed("TypeError")
       ELSE /\ recordLog' = <<AnalysisResults(start.args[1], conversations, clock)>>
            /\ phase' = "analyzed"
            /\ UNCHANGED <<exitCode, fatal, files, conversations>>
    /\ UNCHANGED <<inputFile, schemaFile, dirs, index, successCount, errorCount,
                   totalAttachments, clock, trackerLog, attLog, textLog, callLog, start>>

\* lines 400-403: fs.writeFileSync(OUTPUT_REPORT, JSON.stringify(analysisResults))
SaveReport ==
    /\ phase = "analyzed"
    /\ callLog' = Append(callLog, [op |-> "write", path |-> OUTPUT_REPORT])
    /\ \E writeOk \in BOOLEAN :
         IF ~writeOk THEN AnalysisFailed("unwritable")
         ELSE /\ files' = (OUTPUT_REPORT :> JsonFile(recordLog[1])) @@ files
              /\ phase' = "done"
              /\ UNCHANGED <<exitCode, fatal, conversations, recordLog>>
    /\ UNCHANGED <<inputFile, schemaFile, dirs, index, successCount, errorCount,
                   totalAttachments, clock, trackerLog, attLog, textLog, start>>

NextAnalyze == AnalyzerMain \/ ValidateInput \/ ReadExport \/ RunAnalysis \/ SaveReport

SpecAnalyze == InitAnalyze /\ [][NextAnalyze]_vars

\* ------------------------------------------------------------------------
\* Properties
\* ------------------------------------------------------------------------
InputIsArray == inputFile.exists /\ inputFile.valid /\ inputFile.value.t = "arr"
InputUnusable == ~inputFile.exists \/ ~inputFile.valid \/ inputFile.value.t # "arr"
WellFormedSnapshot(f) ==
    f.valid /\ f.value.t = "obj" /\ Prop(f.value, kKeys).t = "arr"
Failures == {i \in DOMAIN recordLog : ~recordLog[i].wrote}

\* C1: When the input parses as an array, the directories can be made and the
\* snapshot file is absent or was left by a prior run, no record aborts the
\* batch: the run ends in the summary, every record was visited once in input
\* order, and the error counter counts exactly the records that failed.
C1_NoRecordAbortsBatch ==
    ( /\ InputIsArray
      /\ phase \in {"done", "exited"}
      /\ fatal \notin {"unreadable", "mkdir"}
      /\ start.schemaFile \in {NoFile, JsonFile(PriorSchema)} )
    => /\ phase = "done"
       /\ Len(recordLog) = Len(conversations)
       /\ \A i \in DOMAIN recordLog : recordLog[i].conv = i
       /\ errorCount = Cardinality(Failures)

\* C2: Any two conversations of one run whose documents were both written
\* were written under distinct filenames.
C2_DistinctFilenames ==
    \A i, j \in DOMAIN recordLog :
        (i < j /\ recordLog[i].wrote /\ recordLog[j].wrote)
        => recordLog[i].filename # recordLog[j].filename

\* two records with the same, present, title and the same two dates
SameNaming(a, b) ==
    /\ a.t = "obj" /\ b.t = "obj"
    /\ Truthy(Prop(a, kName)) /\ Prop(a, kName) = Prop(b, kName)
    /\ Prop(a, kCreatedAt) = Prop(b, kCreatedAt)
    /\ Prop(a, kUpdatedAt) = Prop(b, kUpdatedAt)

\* <created>_<title>_<updated>.md
UndecoratedName(c) ==
    formatShortDate(Prop(c, kCreatedAt)) \o <<"_">> \o sanitizeTitle(Prop(c, kName))
    \o <<"_">> \o formatShortDate(OrElse(Prop(c, kUpdatedAt), Prop(c, kCreatedAt)))
    \o <<".","m","d">>

\* second is first with T and four digits inserted before the extension
TimeSuffixed(first, second) ==
    LET n == Len(first) - 3
    IN /\ n >= 0
       /\ Len(second) = Len(first) + 5
       /\ SubSeq(second, 1, n) = SubSeq(first, 1, n)
       /\ second[n + 1] = "T"
       /\ \A k \in 2..5 : IsDigit(second[n + k])
       /\ SubSeq(first, n + 1, n + 3) = <<".","m","d">>
       /\ SubSeq(second, n + 6, n + 8) = <<".","m","d">>

C3_Case(i, j) ==
    /\ i < j
    /\ SameNaming(conversations[i], conversations[j])
    /\ recordLog[i].rendered /\ recordLog[i].wrote /\ ~recordLog[i].taken
    /\ recordLog[j].rendered

\* C3: Of two conversations with identical title, creation date and update
\* date, the earlier one, rendered while the output directory does not hold
\* the computed name, is written as <created>_<title>_<updated>.md, and the
\* later one's filename is that name with T<HHMM> inserted before ".md".
C3_SecondGetsTimeSuffix ==
    \A i, j \in DOMAIN recordLog :
        C3_Case(i, j)
        => /\ recordLog[i].filename = UndecoratedName(conversations[i])
           /\ TimeSuffixed(recordLog[i].filename, recordLog[j].filename)

C3_Witness ==
    \E i, j \in DOMAIN recordLog :
        C3_Case(i, j) /\ recordLog[j].wrote /\ phase = "done"

\* the first two attachments of a conversation that resolve to one name, with
\* different content, the name free when the first is visited
C4_Case(i, j) ==
    /\ i < j
    /\ attLog[i].conv = attLog[j].conv
    /\ attLog[i].resolved # <<>>
    /\ attLog[i].resolved = attLog[j].resolved
    /\ attLog[i].content # attLog[j].content
    /\ \A k \in 1..(i - 1) :
          attLog[k].conv = attLog[i].conv
          => attLog[k].name # attLog[i].resolved /\ attLog[k].resolved # attLog[i].resolved
    /\ \A k \in (i + 1)..(j - 1) : attLog[k].resolved # attLog[i].resolved

\* C4: Of two attachments of one conversation that resolve to the same
\* filename with different content, the first is stored under the resolved
\* name and the second under <name>_<hash><ext>, the hash that of the second's
\* content; the two names and the two paths written differ.
C4_SecondGetsContentHash ==
    \A i, j \in DOMAIN attLog :
        C4_Case(i, j)
        => LET r == attLog[i].resolved
           IN /\ attLog[i].name = r
              /\ attLog[j].name = PathName(r) \o <<"_">>
                                  \o generateContentHash(attLog[j].content) \o PathExt(r)
              /\ attLog[i].name # attLog[j].name
              /\ attLog[i].path # attLog[j].path
              /\ (attLog[i].wrote => attLog[i].path \in DOMAIN files)
              /\ (attLog[j].wrote => attLog[j].path \in DOMAIN files)

C4_Witness ==
    \E i, j \in DOMAIN attLog :
        /\ C4_Case(i, j) /\ attLog[i].wrote /\ attLog[j].wrote
        /\ Flat(attLog[i].name) = "a.txt" /\ Flat(attLog[j].name) = "a_79.txt"

\* C5: No two attachments of one conversation that were written were written
\* to the same path.
C5_AttachmentPathsDistinct ==
    \A i, j \in DOMAIN attLog :
        (i < j /\ attLog[i].conv = attLog[j].conv /\ attLog[i].wrote /\ attLog[j].wrote)
        => attLog[i].path # attLog[j].path

\* C6: When the input file is absent, is not JSON or does not hold an array,
\* main() does nothing but exit with code 1: the snapshot file, the
\* directories and the files are as before the run, the tracker was not
\* called and no record or attachment was visited.
C6_FatalInputTouchesNothing ==
    InputUnusable
    => /\ phase \in {"start", "exited"}
       /\ (phase = "exited" => exitCode = 1)
       /\ (phase = "start" => exitCode = 0)
       /\ schemaFile = start.schemaFile
       /\ dirs = start.dirs
       /\ files = start.files
       /\ trackerLog = <<>> /\ recordLog = <<>> /\ attLog = <<>>

C6_Witness ==
    /\ InputUnusable /\ inputFile.exists /\ inputFile.valid
    /\ phase = "exited" /\ fatal = "not_array"
    /\ start.schemaFile.exists /\ OUTPUT_DIR \notin dirs

\* C7: A run whose input exists and parses as an array exits with a failure
\* code only when the filesystem fails the whole run (the input cannot be
\* read, the output directory cannot be made).
C7_ExitOnlyForWholeRunFailure ==
    (InputIsArray /\ phase = "exited") => fatal \in {"unreadable", "mkdir"}

\* C8: In a run whose input parses as an array the tracker is called exactly
\* once, before the output directory is made and before any record is
\* visited, and it returns to main(), which goes on to the records.
C8_TrackerOnceNeverBlocks ==
    (InputIsArray /\ phase \in {"tracked", "converting", "done", "exited"}
         /\ fatal # "unreadable")
    => /\ Len(trackerLog) = 1
       /\ trackerLog[1].records = 0
       /\ trackerLog[1].dirs = start.dirs
       /\ ~trackerLog[1].threw

\* C9: When the snapshot file exists and cannot be read, is not JSON, or
\* holds JSON that is not an object with an array under "keys", the tracker
\* returns normally with the first-run report and no diff.
C9_CorruptSnapshotIsFirstRun ==
    \A k \in DOMAIN trackerLog :
        LET e == trackerLog[k]
        IN ( /\ e.where # "sample_keys"
             /\ e.before.exists
             /\ ("read" \in e.warnings \/ ~WellFormedSnapshot(e.before)) )
           => /\ ~e.threw
              /\ e.outcome = "first_run"
              /\ e.added = {} /\ e.removed = {}

Ascending(a) ==
    \A i \in 1..(Len(a) - 1) : StrLess(a[i].v, a[i + 1].v)

\* C10: Every call of the tracker attempts to write the snapshot computed
\* from the current input (the sorted key list, the record count, the sorted
\* keys of the first record), and the file holds it when the write succeeds.
C10_SnapshotAlwaysWritten ==
    \A k \in DOMAIN trackerLog :
        LET e == trackerLog[k]
        IN /\ e.writeAttempted
           /\ Ascending(Prop(e.written, kKeys).v)
           /\ Ascending(Prop(e.written, kSampleKeys).v)
           /\ NewSet(Prop(e.written, kKeys))
                = {Str(p) : p \in CurrentKeys(conversations)}
           /\ Prop(e.written, kTotal) = Num(Len(conversations))
           /\ ("write" \notin e.warnings => e.after = JsonFile(e.written))

\* the key paths of the current input, and those a snapshot file lists
CurrentKeySet == {Str(p) : p \in CurrentKeys(conversations)}
PriorKeySet(f) == Range(Prop(f.value, kKeys).v)

\* C11: Whenever the tracker reports: with no snapshot file the report is
\* "first run" with no differences; with a snapshot file that was read and
\* lists its keys, the report is "unchanged" exactly when the key paths of
\* the current input are the listed ones, and otherwise "changed" with
\* added = current minus listed and removed = listed minus current.
C11_DiffPolicy ==
    \A k \in DOMAIN trackerLog :
        LET e == trackerLog[k]
        IN ~e.threw =>
           /\ ~e.before.exists
                => e.outcome = "first_run" /\ e.added = {} /\ e.removed = {}
           /\ (e.before.exists /\ "read" \notin e.warnings /\ WellFormedSnapshot(e.before))
                => /\ e.outcome \in {"unchanged", "changed"}
                   /\ e.outcome = "unchanged" <=> CurrentKeySet = PriorKeySet(e.before)
                   /\ e.outcome = "changed"
                        => /\ e.added = CurrentKeySet \ PriorKeySet(e.before)
                           /\ e.removed = PriorKeySet(e.before) \ CurrentKeySet

\* a changed report with keys on both sides
C11_Witness ==
    \E k \in DOMAIN trackerLog :
        /\ trackerLog[k].before = JsonFile(PriorSchema)
        /\ trackerLog[k].outcome = "changed"
        /\ trackerLog[k].added # {} /\ trackerLog[k].removed # {}

\* the message whose text was computed, and its content
TextMessage == Prop(conversations[1], kChatMessages).v[1]
TextContent == Prop(TextMessage, kContent)

\* a block the extraction renders: a text block with a text, or a tool_use
\* block named "artifacts" whose input has a content
Recognized(block) ==
    /\ block.t = "obj"
    /\ \/ Prop(block, kType) = Str(<<"t","e","x","t">>) /\ Truthy(Prop(block, kText))
       \/ /\ Prop(block, kType) = ToolUseType
          /\ Prop(block, kName) = Artifacts
          /\ Truthy(Prop(block, kInput))
          /\ Truthy(Prop(Prop(block, kInput), kContent))

\* C12: The text extraction never fails: content that is absent, not an
\* array or empty gives the empty string, and in an array every block that is
\* not recognized (another type, fields missing, null or not an object, a
\* tool_use without input or not named "artifacts") is skipped, the result
\* being that of the recognized blocks alone.
C12_ExtractionNeverFails ==
    \A k \in DOMAIN textLog :
        /\ ~textLog[k].threw
        /\ (TextContent.t # "arr" \/ TextContent.v = <<>>) => textLog[k].extracted = <<>>
        /\ TextContent.t = "arr"
             => textLog[k].extracted
                  = extractTextFromContent(Arr(SelectSeq(TextContent.v, Recognized)))

TextLegacy == Prop(TextMessage, kText)
ContentPopulated == TextContent.t = "arr" /\ TextContent.v # <<>>
ContentEmptyOrAbsent == TextContent.t \in {"undefined", "null"} \/ TextContent = Arr(<<>>)

\* C13 as stated: a message whose content is empty or absent and whose text
\* is not empty shows the text; a message whose content is a non-empty array
\* shows what the content yields, whatever its blocks and whatever the text.
C13_PopulatedContentIgnoresText ==
    \A k \in DOMAIN textLog :
        ~textLog[k].threw =>
           /\ (ContentEmptyOrAbsent /\ Truthy(TextLegacy))
                => textLog[k].messageText = TextLegacy
           /\ ContentPopulated => textLog[k].messageText = Str(textLog[k].extracted)

\* C13, amended: a message whose content is empty or absent and whose text
\* is not empty shows the text; a message whose content yields a non-empty
\* string shows that string, whatever the text; a message whose non-empty
\* content yields the empty string shows the text when it has one.
C13_TextIsTheFallback ==
    \A k \in DOMAIN textLog :
        ~textLog[k].threw =>
           /\ (ContentEmptyOrAbsent /\ Truthy(TextLegacy))
                => textLog[k].messageText = TextLegacy
           /\ textLog[k].extracted # <<>>
                => textLog[k].messageText = Str(textLog[k].extracted)
           /\ (ContentPopulated /\ textLog[k].extracted = <<>> /\ Truthy(TextLegacy))
                => textLog[k].messageText = TextLegacy

\* blocks that yield nothing, a legacy text, and the text shown
C13_Witness ==
    /\ phase = "texted"
    /\ TextContent = Arr(<<ToolResult>>)
    /\ TextLegacy = Legacy
    /\ textLog[1].messageText = Legacy

\* a bold title, then a fenced block tagged with the language around the body
ArtifactMarkdown(title, language, body) ==
    <<"\n", "*", "*">> \o title \o <<"*", "*", "\n", "\n">>
    \o Fence \o language \o <<"\n">> \o body \o <<"\n">> \o Fence \o <<"\n">>

\* what the claim has one block contribute: at most one string
Contribution(block) ==
    IF ~Recognized(block) THEN <<>>
    ELSE IF Prop(block, kType) = Str(<<"t","e","x","t">>)
         THEN <<JsToString(Prop(block, kText))>>
         ELSE LET input == Prop(block, kInput)
              IN <<ArtifactMarkdown(
                     IF Truthy(Prop(input, kTitle)) THEN JsToString(Prop(input, kTitle))
                     ELSE <<"A","r","t","i","f","a","c","t">>,
                     IF Truthy(Prop(input, kLanguage)) THEN JsToString(Prop(input, kLanguage))
                     ELSE <<>>,
                     JsToString(Prop(input, kContent)))>>

\* the contributions of the first n blocks, in order, a blank line between
RECURSIVE JoinedThrough(_, _)
JoinedThrough(blocks, n) ==
    IF n = 0 THEN [any |-> FALSE, text |-> <<>>]
    ELSE LET before == JoinedThrough(blocks, n - 1)
             here == Contribution(blocks[n])
         IN IF here = <<>> THEN before
            ELSE [any |-> TRUE,
                  text |-> IF before.any THEN before.text \o <<"\n", "\n">> \o here[1]
                           ELSE here[1]]

Messages(c) == Prop(c, kChatMessages)

\* chat_messages holds a value that is not an array
NonSequenceMessages(c) ==
    c.t = "obj" /\ Messages(c).t \notin {"undefined", "null", "arr"}

ObjectsOrAbsent(x) ==
    x.t = "undefined" \/ (x.t = "arr" /\ \A i \in DOMAIN x.v : x.v[i].t = "obj")

\* a record of the documented shape: its messages are objects, their content
\* and attachments absent or arrays of objects
StructurallyValid(c) ==
    /\ c.t = "obj"
    /\ Messages(c).t = "arr"
    /\ \A i \in DOMAIN Messages(c).v :
          /\ Messages(c).v[i].t = "obj"
          /\ ObjectsOrAbsent(Prop(Messages(c).v[i], kContent))
          /\ ObjectsOrAbsent(Prop(Messages(c).v[i], kAttachments))

\* the filesystem refused neither the input, nor a directory, nor a document
FilesystemCooperated ==
    /\ fatal \notin {"unreadable", "mkdir"}
    /\ \A i \in DOMAIN recordLog :
          ~recordLog[i].mkdirRefused /\ (recordLog[i].rendered => recordLog[i].wrote)

\* C15: A run over two records, one of the documented shape and one whose
\* chat_messages is a value that is not an array (a string, a number, a
\* boolean, an object; 0, false and "" included), the filesystem refusing
\* nothing, ends in the summary with the well-formed record's document
\* written, one success and one error.
C15_OneBadRecordOneError ==
    \A i, j \in 1..2 :
        ( /\ InputIsArray /\ Len(inputFile.value.v) = 2 /\ i # j
          /\ StructurallyValid(inputFile.value.v[i])
          /\ NonSequenceMessages(inputFile.value.v[j])
          /\ phase \in {"done", "exited"}
          /\ FilesystemCooperated )
        => /\ phase = "done"
           /\ recordLog[i].wrote
           /\ successCount = 1
           /\ errorCount = 1

\* C16: A record whose chat_messages is an array is rendered whatever the
\* array holds (null, a number, a message without sender or timestamp, a
\* null block in a content, attachments that are not an array), when its
\* dates are valid and the directory it needs can be made.
C16_MalformedMessagesRender ==
    \A i \in DOMAIN recordLog :
        LET c == conversations[recordLog[i].conv]
        IN ( /\ c.t = "obj" /\ Messages(c).t = "arr"
             /\ ~formatDateWithDayThrows(Prop(c, kCreatedAt))
             /\ ~formatDateWithDayThrows(Prop(c, kUpdatedAt))
             /\ ~recordLog[i].mkdirRefused )
           => recordLog[i].rendered

\* no message of the record has an attachment
AttachmentFree(c) ==
    /\ c.t = "obj"
    /\ \/ Messages(c).t \in {"undefined", "null"}
       \/ /\ Messages(c).t = "arr"
          /\ \A i \in DOMAIN Messages(c).v :
                ~PropThrows(Messages(c).v[i]) /\ ~HasAttachments(Messages(c).v[i])

\* the record has no message
MessageFree(c) ==
    c.t = "obj" /\ (Messages(c).t \in {"undefined", "null"} \/ Messages(c) = Arr(<<>>))

\* C17: For a record none of whose messages has an attachment (no messages
\* included) no directory is made, no attachment file is written, and the
\* document counts no attachment and has no attachment note; a record
\* without messages is rendered with the "no messages found" notice.
C17_NoAttachmentsNoSideEffects ==
    \A i \in DOMAIN recordLog :
        LET c == conversations[recordLog[i].conv]
        IN /\ AttachmentFree(c)
                => /\ recordLog[i].made = {}
                   /\ \A k \in DOMAIN attLog : attLog[k].conv # recordLog[i].conv
                   /\ recordLog[i].rendered
                        => /\ recordLog[i].attachmentCount = 0
                           /\ recordLog[i].content.attachmentNote = 0
           /\ ( /\ MessageFree(c)
                /\ ~formatDateWithDayThrows(Prop(c, kCreatedAt))
                /\ ~formatDateWithDayThrows(Prop(c, kUpdatedAt)) )
                => /\ recordLog[i].rendered
                   /\ recordLog[i].content.noMessages
                   /\ recordLog[i].content.messages = <<>>

\* a record with an empty chat_messages, its document written
C17_Witness ==
    \E i \in DOMAIN recordLog :
        /\ Messages(conversations[recordLog[i].conv]) = Arr(<<>>)
        /\ recordLog[i].wrote
        /\ recordLog[i].content.noMessages
        /\ recordLog[i].made = {}
        /\ PathJoin(OUTPUT_DIR, SubSeq(recordLog[i].filename, 1, Len(recordLog[i].filename) - 3)
                                  \o <<"_","a","t","t","a","c","h","m","e","n","t","s">>) \notin dirs

\* the attachment visits of one record
VisitsOf(conv) == SelectSeq(attLog, LAMBDA e : e.conv = conv)
Written(log) == Cardinality({k \in DOMAIN log : log[k].wrote})

\* C18: When an attachment of a well-formed record cannot be written, every
\* attachment of the record is still visited in order, the record is
\* rendered, its document counts exactly the attachments that were written,
\* and the successes count the record when its document is written.
C18_AttachmentFailureIsolated ==
    \A i \in DOMAIN recordLog :
        LET c == conversations[recordLog[i].conv]
            mine == VisitsOf(recordLog[i].conv)
        IN ( /\ StructurallyValid(c)
             /\ ~recordLog[i].mkdirRefused
             /\ \E k \in DOMAIN mine : ~mine[k].wrote )
           => /\ Len(mine) = Visits(c)
              /\ \A k \in DOMAIN mine : mine[k].ord = k
              /\ recordLog[i].rendered
              /\ recordLog[i].attachmentCount = Written(mine)
              /\ recordLog[i].content.attachmentNote = Written(mine)
              /\ successCount = Cardinality({r \in DOMAIN recordLog : recordLog[r].wrote})

\* the first of two attachments fails, the second is written, the document
\* is written and counted
C18_Witness ==
    \E i \in DOMAIN recordLog :
        /\ conversations[recordLog[i].conv] = ConvC
        /\ Len(VisitsOf(recordLog[i].conv)) = 2
        /\ ~VisitsOf(recordLog[i].conv)[1].wrote
        /\ VisitsOf(recordLog[i].conv)[2].wrote
        /\ recordLog[i].wrote
        /\ recordLog[i].attachmentCount = 1
        /\ successCount >= 1

\* C19: When the run ends in the summary, the attachment total it reports
\* is the number of attachment files written during the run, those of
\* records whose document was not written included.
C19_TotalCountsWrittenFiles ==
    phase = "done" => totalAttachments = Written(attLog)

\* the side directory of the conversation extracted on its own
AttDir == PathJoin(OUTPUT_DIR, AttStem \o <<"_","a","t","t","a","c","h","m","e","n","t","s">>)

\* path lies below dir
Inside(path, dir) ==
    /\ Len(path) > Len(dir) + 1
    /\ SubSeq(path, 1, Len(dir) + 1) = dir \o <<"/">>

\* C20: Every attachment file that is written lies inside the side directory
\* <outputDir>/<baseFilename>_attachments, whatever the file_name (a name
\* with a path separator or ".." included).
C20_AttachmentsStayInside ==
    \A k \in DOMAIN attLog : attLog[k].wrote => Inside(attLog[k].path, AttDir)

\* the attachment an entry of the attachment log is about, when each message
\* has at most one
LoggedAttachment(e) ==
    Prop(Messages(conversations[e.conv]).v[e.message], kAttachments).v[1]

\* the display name: file_name, or attachment_<messageIndex>_<attachmentIndex>
DisplayName(e) ==
    IF Truthy(Prop(LoggedAttachment(e), kFileName))
    THEN Prop(LoggedAttachment(e), kFileName).v
    ELSE <<"a","t","t","a","c","h","m","e","n","t","_">> \o NumToStr(e.message - 1) \o <<"_", "0">>

\* the extension the table gives a type, ".txt" for any other value or none
TableExtension(type) ==
    CASE type = Str(<<"t","e","x","t","/","p","l","a","i","n">>) -> <<".","t","x","t">>
      [] type = Str(<<"t","e","x","t","/","m","a","r","k","d","o","w","n">>) -> <<".","m","d">>
      [] type = Str(<<"t","e","x","t","/","h","t","m","l">>) -> <<".","h","t","m","l">>
      [] type = Str(<<"a","p","p","l","i","c","a","t","i","o","n","/","p","d","f">>) -> <<".","p","d","f">>
      [] type = Str(<<"a","p","p","l","i","c","a","t","i","o","n","/","v","n","d",".","o","p","e","n","x","m","l","f","o","r","m","a","t","s","-","o","f","f","i","c","e","d","o","c","u","m","e","n","t",".","w","o","r","d","p","r","o","c","e","s","s","i","n","g","m","l",".","d","o","c","u","m","e","n","t">>) -> <<".","d","o","c","x">>
      [] OTHER -> <<".","t","x","t">>

\* C22: The final filename of an attachment whose display name has no
\* extension is the display name followed by the extension the table gives
\* its file_type, ".txt" when the type is another one, unknown or absent;
\* a display name that has an extension is the final filename.
C22_ExtensionFromType ==
    \A k \in DOMAIN attLog :
        attLog[k].name
          = IF PathExt(DisplayName(attLog[k])) = <<>>
            THEN DisplayName(attLog[k])
                   \o TableExtension(Prop(LoggedAttachment(attLog[k]), kFileType))
            ELSE DisplayName(attLog[k])

\* only ASCII letters and digits, and at least one
AlnumToken(s) == s # <<>> /\ \A i \in DOMAIN s : s[i] \in AlnumSet

\* C29: sanitizeTitle returns, whatever it is given, a non-empty token of
\* ASCII letters and digits only; it returns "UntitledConversation" when the
\* value is not a string or is a string without letter or digit; so the
\* title part of a filename stem has no separator, dot or white space.
C29_TitleIsAlnumToken ==
    \A k \in DOMAIN callLog :
        LET name == Prop(conversations[1], kName)
        IN /\ AlnumToken(callLog[k].sanitized)
           /\ (name.t # "str" \/ \A i \in DOMAIN name.v : name.v[i] \notin AlnumSet)
                => callLog[k].sanitized = Untitled
           /\ AlnumToken(callLog[k].sanitizedTitle)
           /\ \A i \in DOMAIN callLog[k].sanitizedTitle :
                 callLog[k].sanitizedTitle[i] \notin {"/", ".", " ", "\t", "\n", "_"}

\* a title of a separator, a dot and a letter
C29_Witness ==
    /\ phase = "titled"
    /\ Prop(conversations[1], kName) = Str(<<"/", ".", "a">>)
    /\ Flat(callLog[1].sanitized) = "A"

\* the reference definition: the key sequences from the root of a value to
\* each of its keys, an array standing for its first element
RECURSIVE KeySequences(_)
KeySequences(value) ==
    CASE value.t = "obj" ->
           UNION {{<<k>>} \cup {<<k>> \o rest : rest \in KeySequences(value.v[k])}
                  : k \in DOMAIN value.v}
      [] value.t = "arr" ->
           IF value.v = <<>> THEN {} ELSE KeySequences(value.v[1])
      [] OTHER -> {}

\* parentPath.key, along a key sequence
RECURSIVE Dotted(_)
Dotted(keySequence) ==
    IF Len(keySequence) = 1 THEN keySequence[1]
    ELSE Dotted(SubSeq(keySequence, 1, Len(keySequence) - 1))
           \o <<".">> \o keySequence[Len(keySequence)]

ReferenceKeys(records) ==
    {Dotted(q) : q \in UNION {KeySequences(records[i]) : i \in DOMAIN records}}

Reversed(q) == [i \in DOMAIN q |-> q[Len(q) + 1 - i]]

\* C25: The keys collected from a record collection are exactly the dotted
\* paths of the reference definition (every record descended, each key of an
\* object emitted as parentPath.key and its value descended, an array
\* descended through its first element only, primitives and null ending the
\* descent), and the records taken in another order give the same keys.
C25_KeysAreReferencePaths ==
    \A k \in DOMAIN callLog :
        /\ callLog[k].currentKeys = ReferenceKeys(conversations)
        /\ callLog[k].currentKeys = CurrentKeys(Reversed(conversations))

\* the path without its last segment
ParentPath(path) == SubSeq(path, 1, LastIndexOf(path, ".") - 1)

\* C30: The keys collected are closed under parents: with every dotted path
\* of keys that hold no dot, the path without its last segment is collected.
C30_KeysPrefixClosed ==
    \A k \in DOMAIN callLog :
        \A path \in callLog[k].currentKeys :
            LastIndexOf(path, ".") > 0 => ParentPath(path) \in callLog[k].currentKeys

\* a path of three segments with its parent and grandparent
C30_Witness ==
    /\ phase = "collected"
    /\ {<<"a">>, <<"a",".","b">>, <<"a",".","b",".","c">>} \subseteq callLog[1].currentKeys

\* the filename of a record without ".md" and without the time suffix
BaseOf(r) == SubSeq(r.filename, 1, Len(r.filename) - 3 - (IF r.taken THEN 5 ELSE 0))

Absent(x) == x.t \in {"undefined", "null"}

\* the components the base filename is made of
CreatedPart(c) ==
    IF Absent(Prop(c, kCreatedAt)) THEN <<"u","n","k","n","o","w","n","-","d","a","t","e">>
    ELSE formatShortDate(Prop(c, kCreatedAt))
UpdatedPart(c) ==
    IF Absent(Prop(c, kUpdatedAt)) THEN CreatedPart(c)
    ELSE formatShortDate(Prop(c, kUpdatedAt))
TitlePart(c, ordinal) ==
    sanitizeTitle(IF Absent(Prop(c, kName)) \/ Prop(c, kName) = Str(<<>>)
                  THEN Str(<<"C","o","n","v","e","r","s","a","t","i","o","n","_">> \o NumToStr(ordinal + 1))
                  ELSE Prop(c, kName))

SideStem(r) == SubSeq(r.filename, 1, Len(r.filename) - 3) \o <<"_","a","t","t","a","c","h","m","e","n","t","s">>

\* every attachment reference the document of a record embeds
References(r) ==
    UNION { { r.content.messages[m].messageAttachments[k]
              : k \in DOMAIN r.content.messages[m].messageAttachments }
            : m \in DOMAIN r.content.messages }

\* C24: For every rendered record, decorated or not, the directory made for
\* its attachments and the directory every attachment file name is joined
\* to is <returned filename without .md>_attachments in the output directory, and
\* every relative path the document embeds is
\* ./<returned filename without .md>_attachments/<file name>.
C24_OneStemForDocumentAndDirectory ==
    \A i \in DOMAIN recordLog :
        recordLog[i].rendered
        => /\ recordLog[i].made \subseteq {PathJoin(OUTPUT_DIR, SideStem(recordLog[i]))}
           /\ \A k \in DOMAIN attLog :
                 attLog[k].conv = i /\ attLog[k].wrote
                 => attLog[k].path = PathJoin(PathJoin(OUTPUT_DIR, SideStem(recordLog[i])), attLog[k].name)
           /\ \A a \in References(recordLog[i]) :
                 a.relativePath = <<".","/">> \o SideStem(recordLog[i]) \o <<"/">> \o a.fileName

\* a record given the time suffix, its attachment written and listed
C24_Witness ==
    \E i \in DOMAIN recordLog :
        /\ recordLog[i].rendered /\ recordLog[i].taken /\ recordLog[i].wrote
        /\ recordLog[i].made # {}
        /\ References(recordLog[i]) # {}
        /\ \E k \in DOMAIN attLog : attLog[k].conv = i /\ attLog[k].wrote

\* the attachment files written for message m of record i, in order
OwnedBy(i, m) == SelectSeq(attLog, LAMBDA e : e.conv = i /\ e.wrote /\ e.message = m)

\* the attachment files written for record i
Materialized(i) == SelectSeq(attLog, LAMBDA e : e.conv = i /\ e.wrote)

\* the positions of the attachment sub-lists of a document
Listed(r) ==
    { <<m, k>> \in (DOMAIN r.content.messages) \X (1..MaxAtts) :
         k \in DOMAIN r.content.messages[m].messageAttachments }

\* C26: In every rendered document the attachments listed under message m
\* (counted from 1) are the attachment files written for that message, each
\* once and carrying the index m, and the lengths of the sub-lists add up to
\* the attachment count returned, to the count in the footer and to the
\* number of files written for the record.
C26_AttachmentsUnderOwningMessage ==
    \A i \in DOMAIN recordLog :
        recordLog[i].rendered
        => /\ \A m \in DOMAIN recordLog[i].content.messages :
                 /\ recordLog[i].content.messages[m].messageNumber = m
                 /\ Len(recordLog[i].content.messages[m].messageAttachments) = Len(OwnedBy(i, m))
                 /\ \A k \in DOMAIN recordLog[i].content.messages[m].messageAttachments :
                       /\ recordLog[i].content.messages[m].messageAttachments[k].messageIndex = m
                       /\ recordLog[i].content.messages[m].messageAttachments[k].fileName
                            = OwnedBy(i, m)[k].name
           /\ \A k \in 1..Len(Materialized(i)) :
                 Materialized(i)[k].message \in DOMAIN recordLog[i].content.messages
           /\ Cardinality(Listed(recordLog[i])) = recordLog[i].attachmentCount
           /\ recordLog[i].content.attachmentNote = recordLog[i].attachmentCount
           /\ Len(Materialized(i)) = recordLog[i].attachmentCount

\* three messages, the first and the third with an attachment each
C26_Witness ==
    \E i \in DOMAIN recordLog :
        /\ recordLog[i].rendered /\ recordLog[i].attachmentCount = 2
        /\ Len(recordLog[i].content.messages) = 3
        /\ Len(recordLog[i].content.messages[1].messageAttachments) = 1
        /\ Len(recordLog[i].content.messages[2].messageAttachments) = 0
        /\ Len(recordLog[i].content.messages[3].messageAttachments) = 1

\* a document filename carrying the time suffix T<hhmm> before ".md"
Decorated(filename) == Len(filename) >= 8 /\ filename[Len(filename) - 7] = "T"

\* the path a record's document is written to
DocumentPath(r) == PathJoin(OUTPUT_DIR, r.filename)

\* C27: No document is written to an undecorated path that existed when its
\* record was rendered; every document a prior run left and every document
\* this run wrote under an undecorated name is still at its path with its
\* content.
C27_FirstWriterWins ==
    /\ \A i \in DOMAIN recordLog :
          recordLog[i].wrote /\ ~Decorated(recordLog[i].filename)
          => /\ ~recordLog[i].existed
             /\ DocumentPath(recordLog[i]) \in DOMAIN files
             /\ files[DocumentPath(recordLog[i])] = recordLog[i].content
    /\ \A p \in DOMAIN start.files :
          ~Decorated(p) => p \in DOMAIN files /\ files[p] = start.files[p]

\* C28: When a run ends without a fatal exit, over an input of n records,
\* successCount + errorCount = n; the records were processed once each in
\* input order, each counted as a success or as an error, and successCount
\* is the number of documents written.
C28_EveryRecordCountedOnce ==
    phase = "done"
    => /\ successCount + errorCount = Len(conversations)
       /\ Len(recordLog) = Len(conversations)
       /\ \A i \in DOMAIN recordLog : recordLog[i].conv = i
       /\ successCount = Cardinality({i \in DOMAIN recordLog : recordLog[i].wrote})
       /\ errorCount = Cardinality({i \in DOMAIN recordLog : ~recordLog[i].wrote})

\* a run of two records ends with one document written and one error
C28_Witness ==
    /\ phase = "done"
    /\ Len(conversations) = 2
    /\ successCount = 1 /\ errorCount = 1
    /\ recordLog[1].rendered /\ ~recordLog[1].wrote /\ recordLog[2].wrote

\* the path argument of a run of the analyzer
JsonFilePath == start.args[1]

\* the paths whose file is not as it was when the run started
Changed == {p \in (DOMAIN files) \cup (DOMAIN start.files) : p \notin DOMAIN start.files \/ p \notin DOMAIN files \/ files[p] # start.files[p]}

\* C21: A run of the analyzer on any path leaves the file at that path as it
\* was, performs no read and no write of claude_schema.json and changes no
\* file but the report; a run without argument prints the usage, exits with
\* code 1 and changes no file.
C21_AnalyzerTouchesOnlyTheReport ==
    /\ Len(start.args) > 0
       => /\ JsonFilePath \notin Changed
          /\ \A k \in DOMAIN callLog :
                callLog[k].op \in {"read", "write"} => callLog[k].path # SCHEMA_FILE
          /\ Changed \subseteq {OUTPUT_REPORT}
    /\ Len(start.args) = 0 /\ phase # "main"
       => /\ phase = "exited" /\ exitCode = 1
          /\ callLog = <<[op |-> "usage", path |-> <<>>]>>
          /\ Changed = {}

====
